---------------------------- MODULE Spec2Model ----------------------------
(***************************************************************************)
(* Agentic Honey-Pot API (devanand8x/honeypot-api).                        *)
(*                                                                         *)
(* The service is one asyncio event loop: a handler runs without           *)
(* interruption between two `await`s that really suspend.  A message text  *)
(* is a sequence of lower-cased tokens (words and digit runs); the regular *)
(* expressions and the substring tests of the source are evaluated on the  *)
(* tokens.  A Python list that the code rebuilds with list(set(...)) is a  *)
(* bag, so that a duplicate member is a value the model can hold; the      *)
(* order of a list is not modelled.                                        *)
(***************************************************************************)
EXTENDS Integers, Sequences, FiniteSets, Bags, TLC

-----------------------------------------------------------------------------
(* Spelling of the tokens.                                                 *)

\* The words and digit runs the texts of the model are made of.
Vocabulary ==
    {"hello", "urgent", "your", "sbi", "account", "is", "blocked", "share",
     "otp", "and", "number", "now", "912345678901",
     "scammer@ybl", "refund@oksbi", "support@company.com",
     "police", "expire"}

\* The lexemes (keywords of either module and alternatives of the compound
\* patterns) that are substrings of a token: Python's `kw in text_lower`.
Substrings(tok) ==
    CASE tok = "urgent"  -> {"urgent"}
      [] tok = "sbi"     -> {"sbi"}
      [] tok = "account" -> {"account"}
      [] tok = "blocked" -> {"block", "blocked", "locked"}
      [] tok = "share"   -> {"share"}
      [] tok = "otp"     -> {"otp"}
      [] tok = "now"     -> {"now"}
      [] tok = "police"  -> {"police"}
      [] tok = "expire"  -> {"expire"}
      [] tok = "scammer@ybl"         -> {"@"}
      [] tok = "refund@oksbi"        -> {"@", "refund", "sbi"}
      [] tok = "support@company.com" -> {"@", "support"}
      [] OTHER           -> {}

\* The digits of a token that is a digit run, <<>> for any other token.
Digits(tok) ==
    IF tok = "912345678901" THEN <<9, 1, 2, 3, 4, 5, 6, 7, 8, 9, 0, 1>> ELSE <<>>

IsDigitRun(tok) == Digits(tok) # <<>>

-----------------------------------------------------------------------------
(* scam_detector.py                                                        *)

URGENCY_KEYWORDS ==
    {"immediately", "urgent", "now", "today", "hurry", "quick", "fast",
     "limited time", "act now", "don't delay", "expire", "deadline",
     "expiring", "last chance", "final notice", "action required",
     "attention", "alert", "notice", "overdue", "disconnection",
     "turant", "jaldi", "abhi", "aaj hi", "fauran", "saavdhan"}

THREAT_KEYWORDS ==
    {"blocked", "suspended", "locked", "frozen", "deactivated",
     "legal action", "arrest", "police", "court", "penalty", "fine",
     "case filed", "warrant", "crime", "kyc", "expire", "expiry",
     "suspicious", "unusual", "unauthorized", "fraud", "hacked",
     "compromised", "security alert", "warning", "investigation",
     "under surveillance", "warrant issued", "held", "detained",
     "lapsed", "closed", "disabled", "invalid",
     "band", "block", "jail", "thana", "case"}

FINANCIAL_KEYWORDS ==
    {"bank account", "otp", "pin", "password", "cvv", "card number",
     "upi", "transfer", "payment", "refund", "cashback", "prize",
     "lottery", "winner", "reward", "bonus", "free money",
     "won", "congratulations", "claim", "lakh", "crore", "jackpot",
     "atm", "credit card", "debit card", "loan", "approved", "selected",
     "iphone", "samsung", "gift", "voucher", "offer", "shopping",
     "salary", "income", "profit", "investment", "return", "double",
     "insurance", "premium", "policy", "duty", "tax", "fee", "charge",
     "electricity", "bill", "light", "power", "meter", "gold", "coin",
     "car", "bike", "laptop", "job", "hiring", "vacancy", "interview",
     "khata", "paisa", "rupees", "rs", "inaam", "naukri"}

AUTHORITY_KEYWORDS ==
    {"rbi", "reserve bank", "sbi", "hdfc", "icici", "axis",
     "government", "income tax", "customs", "police", "cbi",
     "customer care", "support", "helpline", "official"}

REQUEST_KEYWORDS ==
    {"share", "send", "give", "provide", "enter", "click", "verify",
     "confirm", "update", "validate", "submit", "link", "http", "www",
     "open", "visit", "login", "register", "call", "contact", "dial",
     "press", "tap", "download", "install",
     "bhejo", "do", "batao", "dijiye", "karo"}

\* [kw for kw in KEYWORDS if kw in text_lower]
KeywordsFound(keywords, text) ==
    {kw \in keywords : \E i \in 1..Len(text) : kw \in Substrings(text[i])}

\* The compound patterns "(a1|a2|..).*(b1|b2|..)": name, first alternatives,
\* second alternatives, and whether \d+ is one of the second alternatives.
PATTERNS ==
    << [name |-> "upi_request", first |-> {"share", "send", "give"},
        second |-> {"upi", "vpa", "@"}, digits |-> FALSE],
       [name |-> "otp_request", first |-> {"share", "send", "give", "enter"},
        second |-> {"otp", "code", "pin"}, digits |-> FALSE],
       [name |-> "link_click", first |-> {"click", "open", "visit"},
        second |-> {"link", "url", "http"}, digits |-> FALSE],
       [name |-> "money_request", first |-> {"send", "transfer", "pay"},
        second |-> {"money", "amount", "rs"}, digits |-> TRUE],
       [name |-> "kyc_scam", first |-> {"kyc", "update", "verify"},
        second |-> {"account", "bank", "details", "wallet"}, digits |-> FALSE],
       [name |-> "job_scam",
        first |-> {"job", "work", "hiring", "vacancy", "earning", "salary"},
        second |-> {"daily", "guaranteed", "apply", "hr"}, digits |-> FALSE],
       [name |-> "electricity_scam",
        first |-> {"electricity", "bill", "light", "power"},
        second |-> {"disconnect", "unpaid", "cut", "update"}, digits |-> FALSE],
       [name |-> "customs_scam",
        first |-> {"customs", "parcel", "package", "delivery"},
        second |-> {"hold", "held", "duty", "tax", "fee"}, digits |-> FALSE],
       [name |-> "account_threat", first |-> {"account", "khata"},
        second |-> {"block", "suspend", "freeze", "band"}, digits |-> FALSE],
       [name |-> "prize_scam",
        first |-> {"won", "winner", "prize", "lottery", "congratulations"},
        second |-> {"lakh", "crore", "rs"}, digits |-> TRUE] >>

\* re.search(pattern, text_lower): an occurrence of a first alternative
\* followed, anywhere later on the line, by one of a second alternative.
PatternMatches(p, text) ==
    \E i \in 1..Len(text) : \E j \in (i + 1)..Len(text) :
        /\ Substrings(text[i]) \cap p.first # {}
        /\ \/ Substrings(text[j]) \cap p.second # {}
           \/ p.digits /\ IsDigitRun(text[j])

\* The weights, in hundredths.
WeightUrgency == 15
WeightThreat == 25
WeightFinancial == 20
WeightAuthority == 15
WeightRequest == 10
WeightPattern == 15
PatternCap == 30
ScamThreshold == 30
ConfidenceCap == 100

Min(a, b) == IF a <= b THEN a ELSE b
Max(a, b) == IF a >= b THEN a ELSE b

\* The score with every matched pattern counted in full.
ScoreUncapped(urgency, threat, financial, authority, request, pattern_matches) ==
      (IF urgency THEN WeightUrgency ELSE 0)
    + (IF threat THEN WeightThreat ELSE 0)
    + (IF financial THEN WeightFinancial ELSE 0)
    + (IF authority THEN WeightAuthority ELSE 0)
    + (IF request THEN WeightRequest ELSE 0)
    + pattern_matches * WeightPattern

\* The score detect_scam adds up, in hundredths, from the categories that
\* were found and the number of patterns that matched.
Score(urgency, threat, financial, authority, request, pattern_matches) ==
      (IF urgency THEN WeightUrgency ELSE 0)
    + (IF threat THEN WeightThreat ELSE 0)
    + (IF financial THEN WeightFinancial ELSE 0)
    + (IF authority THEN WeightAuthority ELSE 0)
    + (IF request THEN WeightRequest ELSE 0)
    + Min(pattern_matches * WeightPattern, PatternCap)

\* `is_scam = score >= 0.30` and `confidence = min(score, 1.0)`.
Verdict(score) ==
    [is_scam |-> score >= ScamThreshold, confidence |-> Min(score, ConfidenceCap)]

\* detect_scam(text) -> (is_scam, confidence, keywords, notes); the score and
\* the confidence are in hundredths, the notes are the joined parts.
detect_scam(text) ==
    IF text = <<>>
    THEN [is_scam |-> FALSE, confidence |-> 0, keywords |-> {},
          notes |-> <<"No text provided">>]
    ELSE
      LET urgency_found == KeywordsFound(URGENCY_KEYWORDS, text)
          threat_found == KeywordsFound(THREAT_KEYWORDS, text)
          financial_found == KeywordsFound(FINANCIAL_KEYWORDS, text)
          authority_found == KeywordsFound(AUTHORITY_KEYWORDS, text)
          request_found == KeywordsFound(REQUEST_KEYWORDS, text)
          matched == SelectSeq(PATTERNS, LAMBDA p : PatternMatches(p, text))
          pattern_matches == Len(matched)
          score ==
              Score(urgency_found # {}, threat_found # {}, financial_found # {},
                    authority_found # {}, request_found # {}, pattern_matches)
          notes_parts ==
              (IF urgency_found # {} THEN <<"urgency tactics">> ELSE <<>>)
           \o (IF threat_found # {} THEN <<"threatening language">> ELSE <<>>)
           \o (IF financial_found # {} THEN <<"financial terms">> ELSE <<>>)
           \o (IF authority_found # {} THEN <<"authority impersonation">> ELSE <<>>)
           \o (IF request_found # {} THEN <<"information request">> ELSE <<>>)
           \o [k \in 1..Len(matched) |-> matched[k].name]
      IN [is_scam |-> Verdict(score).is_scam,
          confidence |-> Verdict(score).confidence,
          keywords |-> urgency_found \cup threat_found \cup financial_found
                         \cup authority_found \cup request_found,
          notes |-> IF notes_parts # <<>> THEN <<"Scammer used">> \o notes_parts
                    ELSE <<"No scam indicators">>]

-----------------------------------------------------------------------------
(* intelligence.py                                                         *)

SUSPICIOUS_KEYWORDS ==
    {"urgent", "immediately", "blocked", "suspended", "verify",
     "otp", "pin", "password", "cvv", "transfer", "send money",
     "prize", "winner", "lottery", "refund", "cashback",
     "click here", "update now", "confirm", "validate",
     "bank account", "upi", "payment", "amount",
     "arrest", "legal action", "police", "fine", "penalty",
     "customer care", "helpline", "support",
     "jaldi", "turant", "abhi", "block", "band"}

\* The string a digit sequence spells (the inverse of Digits on the numbers
\* the extractor can produce from the vocabulary).
NumberString(ds) ==
    CASE ds = <<9, 1, 2, 3, 4, 5, 6, 7, 8, 9, 0, 1>> -> "912345678901"
      [] ds = <<2, 3, 4, 5, 6, 7, 8, 9, 0, 1>> -> "2345678901"
      [] OTHER -> "?"

Range(s) == {s[i] : i \in DOMAIN s}

\* A Python list as a bag: each member with the number of its occurrences.
ListBag(s) == [x \in Range(s) |-> Cardinality({i \in DOMAIN s : s[i] = x})]

\* list(set(xs)) that leaves the list as it is.
KeepList(b) == b

\* list(set(xs))
ListOfSet(b) == SetToBag(BagToSet(b))

\* SessionIntelligence(): the five lists, empty.
EmptyIntelligence ==
    [bankAccounts |-> EmptyBag, upiIds |-> EmptyBag, phoneNumbers |-> EmptyBag,
     phishingLinks |-> EmptyBag, suspiciousKeywords |-> EmptyBag]

\* re.findall(r"\b\d{9,18}\b", text): the digit runs of 9 to 18 digits.
RawAccounts(text) ==
    SelectSeq(text, LAMBDA t : IsDigitRun(t) /\ Len(Digits(t)) \in 9..18)

\* re.findall(r"\b(?:\d{3,4}[\s\-]?){3,6}\b", text), kept when the cleaned
\* match has 9 to 18 digits.  No text of the model has two adjacent digit
\* runs, so a match is one run, of 9 to 24 digits (3 to 6 groups of 3 or 4).
FormattedAccounts(text) ==
    SelectSeq(text, LAMBDA t : /\ IsDigitRun(t)
                               /\ Len(Digits(t)) \in 9..24
                               /\ Len(Digits(t)) \in 9..18)

\* The filter of the candidates: not a year, not a mobile number.
AccountKept(tok) ==
    LET cleaned == Digits(tok)
        is_mobile == Len(cleaned) = 10 /\ cleaned[1] \in 6..9
        starts20 == Len(cleaned) >= 2 /\ cleaned[1] = 2 /\ cleaned[2] = 0
    IN (~starts20 \/ Len(cleaned) > 4) /\ ~is_mobile

\* The `filtered` list of the accounts, as the strings appended.
FilteredAccounts(text) ==
    LET raw == RawAccounts(text) \o FormattedAccounts(text)
        kept == SelectSeq(raw, AccountKept)
    IN [k \in 1..Len(kept) |-> NumberString(Digits(kept[k]))]

\* The match of r"\b[\w\.\-]+@[a-zA-Z]{2,}\b" in a token, "" when none: the
\* name, the @ and the letters after it, up to the first character that is
\* no letter.
UpiMatch(tok) ==
    CASE tok = "scammer@ybl"         -> "scammer@ybl"
      [] tok = "refund@oksbi"        -> "refund@oksbi"
      [] tok = "support@company.com" -> "support@company"
      [] OTHER                       -> ""

\* Which of the listed suffixes a string ends with.
SuffixesOf(u) ==
    CASE u = "scammer@ybl"         -> {"@ybl"}
      [] u = "refund@oksbi"        -> {"@oksbi"}
      [] u = "support@company.com" -> {".com"}
      [] OTHER                     -> {}

true_domains == {".com", ".net", ".org", ".gov", ".edu", ".in", ".co"}

common_vpa_suffixes ==
    {"@ybl", "@paytm", "@oksbi", "@okaxis", "@okicici", "@ibl", "@apl", "@axl"}

UpiIds(text) ==
    LET found == SelectSeq(text, LAMBDA t : UpiMatch(t) # "")
        upi_ids == [k \in 1..Len(found) |-> UpiMatch(found[k])]
    IN SelectSeq(upi_ids, LAMBDA u : \/ SuffixesOf(u) \cap true_domains = {}
                                     \/ SuffixesOf(u) \cap common_vpa_suffixes # {})

\* The match of r"(?:\+91[\-\s]?)?[6-9]\d{1,4}[\-\s]?\d{1,4}[\-\s]?\d{1,4}\b"
\* in a digit run: it starts at the leftmost digit 6..9 that leaves 4 to 13
\* digits to the end of the run, and takes them all; <<>> when none.
RawPhone(tok) ==
    LET ds == Digits(tok)
        starts == {p \in 1..Len(ds) : ds[p] \in 6..9 /\ (Len(ds) - p + 1) \in 4..13}
    IN IF starts = {} THEN <<>>
       ELSE LET p == CHOOSE q \in starts : \A r \in starts : q <= r
            IN SubSeq(ds, p, Len(ds))

\* re.findall(r"\b[6-9]\d{9}\b", text): a run of exactly 10 digits.
JustDigits(tok) ==
    LET ds == Digits(tok)
    IN IF Len(ds) = 10 /\ ds[1] \in 6..9 THEN ds ELSE <<>>

\* Strip a leading 91 from 12 digits.
CleanPhone(ds) ==
    IF Len(ds) = 12 /\ ds[1] = 9 /\ ds[2] = 1 THEN SubSeq(ds, 3, 12) ELSE ds

CleanedPhones(text) ==
    LET raw == SelectSeq([k \in 1..Len(text) |-> RawPhone(text[k])],
                         LAMBDA ds : ds # <<>>)
        just == SelectSeq([k \in 1..Len(text) |-> JustDigits(text[k])],
                          LAMBDA ds : ds # <<>>)
        phones == raw \o just
        cleaned == [k \in 1..Len(phones) |-> CleanPhone(phones[k])]
        ten == SelectSeq(cleaned, LAMBDA ds : Len(ds) = 10)
    IN [k \in 1..Len(ten) |-> NumberString(ten[k])]

\* The match of r"https?://[^\s<>\"{}|\\^`\[\]]+" in a token, "" when none
\* (no token of the vocabulary is a link).
UrlMatch(tok) == ""

safe_domains == {"google.com", "facebook.com", "twitter.com", "gov.in", "rbi.org.in"}

Urls(text) ==
    LET found == SelectSeq(text, LAMBDA t : UrlMatch(t) # "")
        urls == [k \in 1..Len(found) |-> UrlMatch(found[k])]
    IN SelectSeq(urls, LAMBDA u : SuffixesOf(u) \cap safe_domains = {})

\* "Code: <c>" for a run of exactly six digits, "" for any other token.
CodeKeyword(tok) == IF Len(Digits(tok)) = 6 THEN "Code: ?" ELSE ""

\* found_keywords: the vocabulary hits, each once, then the codes.
FoundKeywords(text) ==
    LET codes == SelectSeq(text, LAMBDA t : CodeKeyword(t) # "")
    IN SetToBag(KeywordsFound(SUSPICIOUS_KEYWORDS, text))
         (+) ListBag([k \in 1..Len(codes) |-> CodeKeyword(codes[k])])

\* What one call finds in `text`: the lists it is about to add to `existing`.
Found(text) ==
    [hasAccounts |-> Len(RawAccounts(text) \o FormattedAccounts(text)) > 0,
     bankAccounts |-> ListBag(FilteredAccounts(text)),
     upiIds |-> ListBag(UpiIds(text)),
     phoneNumbers |-> ListBag(CleanedPhones(text)),
     phishingLinks |-> ListBag(Urls(text)),
     suspiciousKeywords |-> FoundKeywords(text)]

-----------------------------------------------------------------------------
(* The inputs of the model.                                                *)

\* The number of HTTP requests a behaviour receives.
MaxRequests == 2

\* "s1" is sent in the body; "user-ip" is f"user-{client_ip}", the id of a
\* body that names no session.
SessionIds == {"s1", "user-ip"}
DefaultSessionId == "user-ip"
NoId == "none"

TextEmpty == <<>>
TextHello == <<"hello">>
TextScam ==
    <<"urgent", "your", "sbi", "account", "is", "blocked", "share", "otp",
      "and", "account", "number", "912345678901", "now">>
Texts == {TextEmpty, TextHello, TextScam}

\* An entry of a conversation history: a JSON object with sender and text,
\* or (isdict = FALSE) a JSON string.
DictEntry(sender, text) == [isdict |-> TRUE, sender |-> sender, text |-> text]
StrEntry(text) == [isdict |-> FALSE, sender |-> "", text |-> text]

\* The texts extract_intelligence is called on by itself: those of the
\* requests, a payment address, twice the same, one whose handle holds
\* "sbi", an e-mail address, and a payment address with an e-mail address.
ExtractTexts ==
    Texts \cup {<<"scammer@ybl">>, <<"scammer@ybl", "scammer@ybl">>,
                <<"refund@oksbi">>, <<"support@company.com">>,
                <<"scammer@ybl", "support@company.com">>}

\* Found and detect_scam on the texts of the model, each scanned once.
FoundIn == [text \in ExtractTexts |-> Found(text)]

Detected == [text \in Texts |-> detect_scam(text)]

\* `existing` with the lists of `found` appended, as plain lists.
AppendFound(found, existing) ==
    [bankAccounts |-> existing.bankAccounts (+) found.bankAccounts,
     upiIds |-> existing.upiIds (+) found.upiIds,
     phoneNumbers |-> existing.phoneNumbers (+) found.phoneNumbers,
     phishingLinks |-> existing.phishingLinks (+) found.phishingLinks,
     suspiciousKeywords |-> existing.suspiciousKeywords (+) found.suspiciousKeywords]

\* `existing` with the lists of `found` added, each list as list(set(...)).
AddFound(found, existing) ==
    [bankAccounts |->
         IF found.hasAccounts
         THEN ListOfSet(existing.bankAccounts (+) found.bankAccounts)
         ELSE existing.bankAccounts,
     upiIds |-> ListOfSet(existing.upiIds (+) found.upiIds),
     phoneNumbers |-> ListOfSet(existing.phoneNumbers (+) found.phoneNumbers),
     phishingLinks |-> ListOfSet(existing.phishingLinks (+) found.phishingLinks),
     suspiciousKeywords |->
         ListOfSet(existing.suspiciousKeywords (+) found.suspiciousKeywords)]

\* extract_intelligence(text, existing): `existing` updated in place and
\* returned.
extract_intelligence(text, existing) ==
    IF text = <<>> THEN existing ELSE AddFound(FoundIn[text], existing)

\* The call extract_intelligence(text, existing) as its caller sees it: the
\* object returned, the object `existing` after the call, and whether the two
\* are one object (the lists are assigned on `existing`, which is returned).
ExtractCall(text, existing) ==
    LET after == extract_intelligence(text, existing)
    IN [returned |-> after, existing |-> after, same_object |-> TRUE]

\* `threshold: int = 3` and the 0.7 of `get_sim(...) < 0.7`, in tenths.
DefaultThreshold == 3
SimilarTenths == 7

\* scammer_msgs: the texts of the entries whose sender is "scammer".
ScammerMessages(history) ==
    LET mine == SelectSeq(history, LAMBDA m : m.sender = "scammer")
    IN [k \in 1..Len(mine) |-> mine[k].text]

\* get_sim(s1, s2), as the quotient num / den: the words the two texts
\* share over the size of the larger word set, 0 when either has no word.
get_sim(s1, s2) ==
    LET w1 == Range(s1)
        w2 == Range(s2)
    IN IF w1 = {} \/ w2 = {}
       THEN [num |-> 0, den |-> 1]
       ELSE [num |-> Cardinality(w1 \cap w2),
             den |-> Max(Cardinality(w1), Cardinality(w2))]

\* is_repetitive(history, threshold), for a threshold of at least 1.
is_repetitive(history, threshold) ==
    LET scammer_msgs == ScammerMessages(history)
        n == Len(scammer_msgs)
        last_n == SubSeq(scammer_msgs, n - threshold + 1, n)
    IN IF n < threshold
       THEN FALSE
       ELSE \A i \in 1..(Len(last_n) - 1) :
               LET sim == get_sim(last_n[i], last_n[i + 1])
               IN ~(10 * sim.num < SimilarTenths * sim.den)

\* The conversationHistory values of the request bodies.
RequestHistories ==
    { <<>>,
      <<DictEntry("scammer", TextScam)>>,
      <<StrEntry(TextHello)>> }

\* total_score += score * 0.5: a confidence in hundredths adds 5 thousandths
\* for each hundredth.
HistoryWeight == 5

\* min(total_score, 1.0), in thousandths.
HistoryCap == 1000

\* The sum in analyze_conversation_history, in thousandths, over the entries
\* whose sender is "scammer".
RECURSIVE HistoryScore(_)
HistoryScore(history) ==
    IF history = <<>> THEN 0
    ELSE (IF Head(history).sender = "scammer"
          THEN Detected[Head(history).text].confidence * HistoryWeight ELSE 0)
         + HistoryScore(Tail(history))

\* analyze_conversation_history(history) -> (score, keywords), the score in
\* thousandths; msg.get raises on an entry that is no dict.  No handler
\* calls it.
analyze_conversation_history(history) ==
    IF \E i \in 1..Len(history) : ~history[i].isdict
    THEN [raised |-> TRUE, score |-> 0]
    ELSE [raised |-> FALSE, score |-> Min(HistoryScore(history), HistoryCap)]

\* The JSON bodies of the POST requests: sessionId (or none), message.text,
\* conversationHistory.
Bodies ==
    [sessionId : {"s1", NoId}, text : Texts, history : RequestHistories]

\* What a generation provider does when called: "fails" (no key or client,
\* an exception, or no text in the result), "blank" (a text of white space
\* only), "text".
ProviderOutcomes == {"fails", "blank", "text"}

-----------------------------------------------------------------------------
(* session.py                                                              *)

\* Session.__init__ (start_time and last_activity, wall-clock readings, are
\* not part of the state).
NewSession ==
    [message_count |-> 0,
     scam_detected |-> FALSE,
     intelligence |-> EmptyIntelligence,
     agent_notes |-> <<>>,
     conversation_history |-> <<>>,
     last_agent_response |-> "",
     callback_sent |-> FALSE]

\* Session.to_dict
to_dict(session) ==
    [message_count |-> session.message_count,
     scam_detected |-> session.scam_detected,
     intelligence |-> session.intelligence,
     agent_notes |-> session.agent_notes,
     conversation_history |-> session.conversation_history,
     last_agent_response |-> session.last_agent_response,
     callback_sent |-> session.callback_sent]

\* from_dict that restores every field but callback_sent, which stays as
\* __init__ set it.
FromDictUnmarked(data) ==
    [message_count |-> data.message_count,
     scam_detected |-> data.scam_detected,
     intelligence |-> data.intelligence,
     agent_notes |-> data.agent_notes,
     conversation_history |-> data.conversation_history,
     last_agent_response |-> data.last_agent_response,
     callback_sent |-> FALSE]

\* Session.from_dict
from_dict(data) ==
    [message_count |-> data.message_count,
     scam_detected |-> data.scam_detected,
     intelligence |-> data.intelligence,
     agent_notes |-> data.agent_notes,
     conversation_history |-> data.conversation_history,
     last_agent_response |-> data.last_agent_response,
     callback_sent |-> data.callback_sent]

\* datetime.isoformat(), from the seconds on: the fraction is left out when
\* the microseconds are 0.
isoformat(t) ==
    IF t.microsecond = 0 THEN <<t.second>> ELSE <<t.second, t.microsecond>>

\* datetime.fromisoformat(): a string with no fraction has 0 microseconds.
fromisoformat(str) ==
    [second |-> str[1], microsecond |-> IF Len(str) > 1 THEN str[2] ELSE 0]

\* Session.to_dict on all ten fields: the seven of the state as to_dict
\* stores them, the id, and the two times as ISO strings.
StoredDict(session) ==
    to_dict(session)
      @@ [session_id |-> session.session_id,
          start_time |-> isoformat(session.start_time),
          last_activity |-> isoformat(session.last_activity)]

\* Session.from_dict on all ten fields.
LoadedSession(data) ==
    from_dict(data)
      @@ [session_id |-> data.session_id,
          start_time |-> fromisoformat(data.start_time),
          last_activity |-> fromisoformat(data.last_activity)]

\* The data written by save_to_disk for the session map m.
Snapshot(m) == [sid \in DOMAIN m |-> to_dict(m[sid])]

\* load_from_disk: the session map read from the file contents.
load_from_disk(file) == [sid \in DOMAIN file |-> from_dict(file[sid])]

\* save_to_disk without its try/except: a failed write raises to the caller.
SaveRaises(file, m, ok) ==
    [file |-> IF ok THEN Snapshot(m) ELSE file, raised |-> ~ok]

\* SessionManager.save_to_disk for the session map m: the file it leaves and
\* whether it raised to its caller; a failed write (ok false) is logged in the
\* except branch.
save_to_disk(file, m, ok) ==
    [file |-> IF ok THEN Snapshot(m) ELSE file, raised |-> FALSE]

\* The file after the saves of one handler: snaps are the session maps at its
\* calls of save_to_disk, oks whether each write succeeded (a failed write is
\* logged and swallowed).
AfterSaves(file, snaps, oks) ==
    LET done == {k \in 1..Len(snaps) : oks[k]}
    IN IF done = {} THEN file
       ELSE Snapshot(snaps[CHOOSE k \in done : \A j \in done : j <= k])

\* get_or_create without `if session_id not in self._sessions`.
AlwaysCreate(m, sid) ==
    [x \in DOMAIN m \cup {sid} |-> IF x = sid THEN NewSession ELSE m[x]]

\* get_or_create whose new session starts with message_count = 1.
CreateCounted(m, sid) ==
    IF sid \notin DOMAIN m
    THEN m @@ (sid :> [NewSession EXCEPT !.message_count = 1]) ELSE m

\* SessionManager.get_or_create, on the session map.
get_or_create(m, sid) ==
    IF sid \notin DOMAIN m THEN m @@ (sid :> NewSession) ELSE m

\* SessionManager.increment_message_count
increment_message_count(m, sid) ==
    IF sid \in DOMAIN m
    THEN [m EXCEPT ![sid].message_count = @ + 1] ELSE m

\* SessionManager.set_scam_detected
set_scam_detected(m, sid, detected) ==
    IF sid \in DOMAIN m THEN [m EXCEPT ![sid].scam_detected = detected] ELSE m

\* update_intelligence on a record that all sessions share.
UpdateSharedIntelligence(m, sid, intelligence) ==
    IF sid \in DOMAIN m
    THEN [s \in DOMAIN m |-> [m[s] EXCEPT !.intelligence = intelligence]]
    ELSE m

\* SessionManager.update_intelligence
update_intelligence(m, sid, intelligence) ==
    IF sid \in DOMAIN m THEN [m EXCEPT ![sid].intelligence = intelligence] ELSE m

\* SessionManager.update_notes
update_notes(m, sid, notes) ==
    IF sid \in DOMAIN m THEN [m EXCEPT ![sid].agent_notes = notes] ELSE m

\* SessionManager.set_last_response
set_last_response(m, sid, response) ==
    IF sid \in DOMAIN m THEN [m EXCEPT ![sid].last_agent_response = response] ELSE m

\* mark_callback_sent that marks nothing.
MarkNothing(m, sid) == m

\* SessionManager.mark_callback_sent
mark_callback_sent(m, sid) ==
    IF sid \in DOMAIN m THEN [m EXCEPT ![sid].callback_sent = TRUE] ELSE m

\* SessionManager.delete
delete(m, sid) == [x \in DOMAIN m \ {sid} |-> m[x]]

-----------------------------------------------------------------------------
(* callback.py                                                             *)

\* should_send_callback as it was before "changed from 3 to 1".
SendFromThree(scam_detected, message_count, callback_already_sent) ==
    ~callback_already_sent /\ scam_detected /\ message_count >= 3

\* should_send_callback(scam_detected, message_count, callback_already_sent)
should_send_callback(scam_detected, message_count, callback_already_sent) ==
    IF callback_already_sent THEN FALSE
    ELSE IF ~scam_detected THEN FALSE
    ELSE IF message_count >= 1 THEN TRUE
    ELSE FALSE

\* for attempt in range(3)
CallbackAttempts == 3

\* A status check that accepts nothing.
NoSuccessStatus == {}

\* response.status_code in [200, 201, 202]
SuccessStatus == {200, 201, 202}

\* What one POST of the callback meets: a status from the endpoint, a
\* timeout, or another exception (no connection).
AttemptOutcomes == {"status_200", "status_202", "status_500", "timeout", "error"}

\* response.status_code of an outcome; 0 when there is no response.
StatusOf(outcome) ==
    CASE outcome = "status_200" -> 200
      [] outcome = "status_202" -> 202
      [] outcome = "status_500" -> 500
      [] OTHER -> 0

\* timeout = 5 + (attempt * 2)
TimeoutBase == 5

TimeoutStep == 2

\* The same timeout on every attempt.
FlatTimeout(attempt) == TimeoutBase

AttemptTimeout(attempt) == TimeoutBase + (attempt * TimeoutStep)

\* The except branches without their `continue`: the exception leaves
\* send_guvi_callback.
ExceptionsEscape(outcome) ==
    IF StatusOf(outcome) \in SuccessStatus THEN "return"
    ELSE IF StatusOf(outcome) = 0 THEN "raise"
    ELSE "continue"

\* What the loop does after an attempt: `return True, None` on a success
\* status; a non-success status is logged and the loop goes on; both except
\* branches log and `continue`.
AfterAttempt(outcome) ==
    IF StatusOf(outcome) \in SuccessStatus THEN "return" ELSE "continue"

\* What send_guvi_callback returns: (success, error_message).
NotReturned == [success |-> FALSE, error_message |-> "<not returned>"]

ReturnSuccess == [success |-> TRUE, error_message |-> "None"]

ReturnFailure == [success |-> FALSE, error_message |-> "Failed after 3 attempts"]

\* A background task added with add_task(send_guvi_callback, ...).
\* `intelligence` is the session's record, passed by reference: the payload
\* is built from it when the task starts.
CallbackTask(sid, scam_detected, total_messages, intelligence, agent_notes) ==
    [sessionId |-> sid, scamDetected |-> scam_detected,
     totalMessagesExchanged |-> total_messages,
     extractedIntelligence |-> intelligence, agentNotes |-> agent_notes,
     attempt |-> 0, state |-> "scheduled", timeouts |-> <<>>,
     result |-> NotReturned]

-----------------------------------------------------------------------------
(* agent.py                                                                *)

FallbackLine == "Sir please wait, let me ask my son. He handles all money matters."

\* build_conversation_context reads msg.get of each of the last 6 entries: an
\* entry that is no dict raises AttributeError.
ContextWindow == 6

ContextRaises(history) ==
    \E i \in 1..Len(history) :
        /\ i > Len(history) - ContextWindow
        /\ ~history[i].isdict

\* The last n entries of a list: xs[-n:].
LastEntries(xs, n) == SubSeq(xs, Max(1, Len(xs) - n + 1), Len(xs))

\* build_conversation_context(history, current_message), for a history whose
\* last 6 entries are dicts: one turn for each of them, "Scammer" for the
\* sender "scammer" and "You" for any other, then the current message as a
\* turn of the scammer (the open "You: " that ends the string is no turn).
build_conversation_context(history, current_message) ==
    LET window == LastEntries(history, ContextWindow)
    IN [i \in 1..Len(window) |->
           [speaker |-> IF window[i].sender = "scammer" THEN "Scammer" ELSE "You",
            text |-> window[i].text]]
       \o <<[speaker |-> "Scammer", text |-> current_message]>>

\* generate_response: NVIDIA first, then Gemini, then the fixed line.  A
\* provider that is unavailable, raises or returns no text passes the turn to
\* the next; a text is stripped and returned ("blank": only white space).
generate_response(history, nvidia, gemini) ==
    IF ContextRaises(history) THEN [raised |-> TRUE, text |-> ""]
    ELSE IF nvidia = "text" THEN [raised |-> FALSE, text |-> "nvidia reply"]
    ELSE IF nvidia = "blank" THEN [raised |-> FALSE, text |-> ""]
    ELSE IF gemini = "text" THEN [raised |-> FALSE, text |-> "gemini reply"]
    ELSE IF gemini = "blank" THEN [raised |-> FALSE, text |-> ""]
    ELSE [raised |-> FALSE, text |-> FallbackLine]

\* `def generate_response(...)`: a plain function, not a coroutine function.
generate_response_is_coroutine == FALSE

\* `await v` for the str v that generate_response returned: a str is not
\* awaitable, the expression raises TypeError; the result of a coroutine
\* function would be awaited.
AwaitRaises == ~generate_response_is_coroutine

\* No call of generate_response yet.  pc: where the call stands; nvidia and
\* gemini: what each provider does when this call turns to it; called: the
\* candidates used, in order; result: the string returned.
NoCall ==
    [pc |-> "idle", history |-> <<>>, nvidia |-> "unavailable",
     gemini |-> "unavailable", called |-> <<>>, result |-> ""]

\* A history longer than the context window whose only entry that is no dict
\* lies before the window.
OldStrHistory ==
    <<StrEntry(TextHello)>> \o [i \in 1..ContextWindow |-> DictEntry("scammer", TextHello)]

\* The conversation_history arguments of generate_response.
AgentHistories == RequestHistories \cup {OldStrHistory}

\* What a provider does in one call of generate_response: no key or no client
\* ("unavailable"); called, it raises, answers no text ("none"), a text of
\* white space only ("blank") or a text, or it never answers ("silent").
ProviderBehaviours == {"unavailable", "raises", "none", "blank", "text", "silent"}

\* generate_response going on to the next candidate after every answer: a
\* text would not end the call.
AnyAnswer == {"raises", "none", "blank", "text"}

\* The provider answers after which generate_response goes on to the next
\* candidate: the except branch, and the `if` on the text that fails.
PassesTurn == {"raises", "none"}

\* x.strip() of the text a provider answered.
Stripped(answer, text) == IF answer = "blank" THEN "" ELSE text

\* The outcome of a provider as generate_response(history, nvidia, gemini) takes it.
Coarse(outcome) ==
    IF outcome \in {"blank", "text"} THEN outcome ELSE "fails"

-----------------------------------------------------------------------------
(* main.py: the state and the responses.                                   *)

VARIABLES
    sessions,    \* session_manager._sessions: session id -> Session
    disk,        \* the contents of sessions.json: session id -> dict
    fs_faulty,   \* whether a write of sessions.json can fail
    pending,     \* the bodies of the POST requests suspended in `await request.body()`
    tasks,       \* the background tasks added, in the order of add_task
    received,    \* per session id, the POSTs the callback endpoint has received
    accepted,    \* per session id, the POSTs it has answered 200, 201 or 202
    admitted,    \* the number of HTTP requests received so far
    checks,      \* per session id, how often a handler evaluated its callback condition
    ever_sent,   \* the session ids whose callback_sent has been true
    last,        \* the operation that ran last: its kind, its session id, the
                 \* reply generated, the response
    call,        \* the call of agent.generate_response in progress
    eval         \* a call of one of the pure functions: its arguments, and its
                 \* result once it has returned

vars == <<sessions, disk, fs_faulty, pending, tasks, received, accepted,
          admitted, checks, ever_sent, last, call, eval>>

NoReply == "<no reply generated>"

\* No pure function is being called.
NoEval == [fn |-> "none", done |-> FALSE]

\* The fields of a response; a field a response does not carry is blank.
Response(kind, code, sid, scam, reply, total, intel, notes) ==
    [kind |-> kind, code |-> code, status |-> IF code = 200 THEN "success" ELSE "",
     sessionId |-> sid, scamDetected |-> scam, agentResponse |-> reply,
     reply |-> reply, totalMessagesExchanged |-> total,
     extractedIntelligence |-> intel, agentNotes |-> notes, callbackSent |-> FALSE]

NoResponse == Response("none", 0, "", FALSE, "", 0, EmptyIntelligence, <<>>)

RecoveryReply == "Hello, I am Ramesh. How can I help you?"

\* The handler's answer on an exception, saying scamDetected false.
RecoverySaysNoScam ==
    Response("recovery", 200, "unknown", FALSE, RecoveryReply, 1,
             EmptyIntelligence, <<"System Recovery">>)

\* global_exception_handler
global_exception_handler ==
    Response("recovery", 200, "unknown", TRUE, RecoveryReply, 1, EmptyIntelligence,
             <<"System Recovery">>)

\* verify_api_key raising HTTPException(401)
Unauthorized == Response("401", 401, "", FALSE, "", 0, EmptyIntelligence, <<>>)

\* HTTPException(404, "Session not found")
NotFound == Response("404", 404, "", FALSE, "", 0, EmptyIntelligence, <<>>)

\* f"Hello! How can I help you today? Ref: {session_id_val}"
Greeting(sid) ==
    IF sid = "s1" THEN "Hello! How can I help you today? Ref: s1"
    ELSE "Hello! How can I help you today? Ref: user-ip"

\* The loop over the request's history: every scammer entry with a text is
\* run through extract_intelligence (str(h) of an entry that is no dict).
RECURSIVE ExtractHistory(_, _)
ExtractHistory(history, intel) ==
    IF history = <<>> THEN intel
    ELSE LET h == Head(history)
             h_txt == h.text
             h_sender == IF h.isdict THEN h.sender ELSE "scammer"
         IN ExtractHistory(Tail(history),
                           IF h_sender = "scammer" /\ h_txt # <<>>
                           THEN extract_intelligence(h_txt, intel) ELSE intel)

\* 3.4: max(message_count + 1, len(history) + 1)
NewMessageCount(message_count, history) ==
    Max(message_count + 1, Len(history) + 1)

\* The session id a body resolves to.
SessionIdOf(body) ==
    IF body.sessionId # NoId THEN body.sessionId ELSE DefaultSessionId

\* What a handler leaves: the session map, the maps at its calls of
\* save_to_disk, its response, whether it added the callback task (and which),
\* whether it evaluated its callback condition, and the reply
\* generate_response returned.
Outcome(mem, saves, response, send, checked, generated, task) ==
    [mem |-> mem, saves |-> saves, response |-> response, send |-> send,
     checked |-> checked, generated |-> generated, task |-> task]

\* `except Exception as oops`: the handler stops where it raised and answers
\* with global_exception_handler.
Raised(sid, mem, saves, generated) ==
    Outcome(mem, saves, global_exception_handler, FALSE, FALSE, generated,
            CallbackTask(sid, FALSE, 0, EmptyIntelligence, <<>>))

\* 3.7 Build Response, 3.8 Trigger Callback and the return.
BuildResponse(sid, m, saves, final_is_scam, agent_reply, generated, intel, notes) ==
    LET send == should_send_callback(final_is_scam, m[sid].message_count,
                                     m[sid].callback_sent)
        marked == mark_callback_sent(m, sid)
    IN Outcome(IF send THEN marked ELSE m,
               IF send THEN Append(saves, marked) ELSE saves,
               Response("analysis", 200, sid, final_is_scam, agent_reply,
                        m[sid].message_count, intel, notes),
               send, TRUE, generated,
               CallbackTask(sid, final_is_scam, m[sid].message_count, intel, notes))

\* The statements after `await generate_response(...)` has yielded agent_reply:
\* the reply appended to the history, set_last_response, set_scam_detected,
\* save_to_disk.
RecordReply(sid, m, saves, history, agent_reply, intel, notes) ==
    LET appended == [m EXCEPT ![sid].conversation_history =
                         Append(history, DictEntry("agent", <<agent_reply>>))]
        replied == set_last_response(appended, sid, agent_reply)
        latched == set_scam_detected(replied, sid, TRUE)
    IN BuildResponse(sid, latched, saves \o <<replied, latched, latched>>,
                     TRUE, agent_reply, agent_reply, intel, notes)

\* 3.6 Agent Response: the call of generate_response and the `await` of what
\* it returned.
AgentResponse(sid, m, saves, history, gen, engage, intel, notes) ==
    IF ~engage
    THEN BuildResponse(sid, m, saves, FALSE, Greeting(sid), NoReply, intel, notes)
    ELSE IF gen.raised THEN Raised(sid, m, saves, NoReply)
    ELSE IF AwaitRaises THEN Raised(sid, m, saves, gen.text)
    ELSE RecordReply(sid, m, saves, history, gen.text, intel, notes)

\* 3.5 Scam Detection & Intelligence Extraction: update_intelligence and
\* update_notes, each with its save.
Analysis(sid, m, saves, history, det, intel, nvidia, gemini) ==
    AgentResponse(sid,
                  update_notes(update_intelligence(m, sid, intel), sid, det.notes),
                  saves \o <<update_intelligence(m, sid, intel),
                             update_notes(update_intelligence(m, sid, intel), sid,
                                          det.notes)>>,
                  history,
                  generate_response(history, nvidia, gemini),
                  det.is_scam \/ m[sid].scam_detected,
                  intel, det.notes)

\* 3.4 Message Counting and its save.  session_history is the session's list
\* with the current message added; request_history is the local `history`,
\* the same list when the body carried one, [] when it did not.
MessageCounting(sid, m, saves, msg_text, session_history, request_history, nvidia, gemini) ==
    LET counted == [m EXCEPT
                      ![sid].conversation_history = session_history,
                      ![sid].message_count =
                          NewMessageCount(m[sid].message_count, request_history)]
    IN Analysis(sid, counted, Append(saves, counted), session_history,
                Detected[msg_text],
                ExtractHistory(request_history,
                    extract_intelligence(msg_text, m[sid].intelligence)),
                nvidia, gemini)

\* 3.3 State Synchronization: synced is the session's history after
\* `curr_session.conversation_history = history`; h.get raises for a last
\* entry that is not a dict.
StateSynchronization(sid, m, saves, msg_text, has_history, synced, nvidia, gemini) ==
    IF synced # <<>> /\ ~synced[Len(synced)].isdict
    THEN Raised(sid, [m EXCEPT ![sid].conversation_history = synced], saves, NoReply)
    ELSE IF synced # <<>> /\ synced[Len(synced)].text = msg_text
    THEN MessageCounting(sid, m, saves, msg_text, synced,
                         IF has_history THEN synced ELSE <<>>, nvidia, gemini)
    ELSE MessageCounting(sid, m, saves, msg_text,
                         Append(synced, DictEntry("scammer", msg_text)),
                         IF has_history
                         THEN Append(synced, DictEntry("scammer", msg_text))
                         ELSE <<>>,
                         nvidia, gemini)

\* 3.1 Identify Session: get_or_create (saved when it created) and
\* update_activity (saved).
IdentifySession(m, sid, body, nvidia, gemini) ==
    StateSynchronization(sid, get_or_create(m, sid),
        IF sid \in DOMAIN m THEN <<get_or_create(m, sid)>>
        ELSE <<get_or_create(m, sid), get_or_create(m, sid)>>,
        body.text, body.history # <<>>,
        IF body.history # <<>> THEN body.history
        ELSE get_or_create(m, sid)[sid].conversation_history,
        nvidia, gemini)

\* analyze_message_root_flexible from "3.1 Identify Session" to its return,
\* on the session map m.
AnalyzeOutcome(m, body, nvidia, gemini) ==
    IdentifySession(m, SessionIdOf(body), body, nvidia, gemini)

\* end_session with `if session.scam_detected:` alone, the flag not tested.
EndSessionResend(m, sid) ==
    LET send == m[sid].scam_detected
        marked == mark_callback_sent(m, sid)
    IN Outcome(IF send THEN marked ELSE m,
               IF send THEN <<marked>> ELSE <<>>,
               [Response("terminated", 200, "", FALSE, "", 0, EmptyIntelligence, <<>>)
                  EXCEPT !.status = "terminated", !.callbackSent = TRUE],
               send, TRUE, NoReply,
               CallbackTask(sid, m[sid].scam_detected, m[sid].message_count,
                            m[sid].intelligence, m[sid].agent_notes))

\* end_session with `if not session.callback_sent:` alone, scam_detected not
\* tested.
EndSessionAnySession(m, sid) ==
    LET send == ~m[sid].callback_sent
        marked == mark_callback_sent(m, sid)
    IN Outcome(IF send THEN marked ELSE m,
               IF send THEN <<marked>> ELSE <<>>,
               [Response("terminated", 200, "", FALSE, "", 0, EmptyIntelligence, <<>>)
                  EXCEPT !.status = "terminated", !.callbackSent = TRUE],
               send, TRUE, NoReply,
               CallbackTask(sid, m[sid].scam_detected, m[sid].message_count,
                            m[sid].intelligence, m[sid].agent_notes))

\* end_session after its lookup: the same fields, for DELETE /session/{id}.
EndSessionOutcome(m, sid) ==
    LET send == m[sid].scam_detected /\ ~m[sid].callback_sent
        marked == mark_callback_sent(m, sid)
    IN Outcome(IF send THEN marked ELSE m,
               IF send THEN <<marked>> ELSE <<>>,
               [Response("terminated", 200, "", FALSE, "", 0, EmptyIntelligence, <<>>)
                  EXCEPT !.status = "terminated", !.callbackSent = TRUE],
               send, TRUE, NoReply,
               CallbackTask(sid, m[sid].scam_detected, m[sid].message_count,
                            m[sid].intelligence, m[sid].agent_notes))

-----------------------------------------------------------------------------
(* The state machine.                                                      *)

\* Sessions a sessions.json can hold when the process starts: one that was
\* never engaged, and one that was, before and after its callback.
QuietSession ==
    [NewSession EXCEPT
        !.message_count = 1,
        !.agent_notes = Detected[TextHello].notes,
        !.conversation_history = <<DictEntry("scammer", TextHello)>>]

EngagedSession(callback_sent) ==
    [NewSession EXCEPT
        !.message_count = 2,
        !.scam_detected = TRUE,
        !.intelligence = extract_intelligence(TextScam, EmptyIntelligence),
        !.agent_notes = Detected[TextScam].notes,
        !.conversation_history = <<DictEntry("scammer", TextScam),
                                   DictEntry("agent", <<"gemini reply">>)>>,
        !.last_agent_response = "gemini reply",
        !.callback_sent = callback_sent]

PersistedSessions == {QuietSession, EngagedSession(FALSE), EngagedSession(TRUE)}

\* The session ids of m whose callback_sent is true.
Sent(m) == {sid \in DOMAIN m : m[sid].callback_sent}

\* No file, or a file with session "s1".
InitialFiles == {<<>>} \cup {("s1" :> to_dict(p)) : p \in PersistedSessions}

\* SessionManager.__init__: the map is what load_from_disk reads.
Start(faulty) ==
    /\ disk \in InitialFiles
    /\ sessions = load_from_disk(disk)
    /\ fs_faulty = faulty
    /\ pending = EmptyBag
    /\ tasks = <<>>
    /\ received = [sid \in SessionIds |-> 0]
    /\ accepted = [sid \in SessionIds |-> 0]
    /\ admitted = 0
    /\ checks = [sid \in SessionIds |-> 0]
    /\ ever_sent = Sent(sessions)
    /\ call = NoCall
    /\ eval = NoEval
    /\ last = [op |-> "none", sid |-> NoId, generated |-> NoReply,
               response |-> NoResponse]

\* The service on a file system whose writes succeed.
Init == Start(FALSE)

\* The service on a file system whose writes can fail.
InitFaulty == Start(TRUE)

\* The session map m in place, with the record of the ids marked so far.
Store(m) ==
    /\ sessions' = m
    /\ ever_sent' = ever_sent \cup Sent(m)

\* The results of n writes of sessions.json. Every write replaces the whole
\* file, so on a faulty file system the runs are told apart by their last
\* successful write alone (k = 0: none); one run for each k.
SaveResults(n) ==
    IF fs_faulty THEN {[j \in 1..n |-> j = k] : k \in 0..n}
    ELSE {[j \in 1..n |-> TRUE]}

\* `await send_guvi_callback(...)` in the handler in place of add_task: the
\* first attempt is made before the handler returns.
AwaitedInHandler(queue, task) ==
    Append(queue, [task EXCEPT !.attempt = 1, !.state = "running",
                               !.timeouts = <<AttemptTimeout(0)>>])

\* background_tasks.add_task(send_guvi_callback, ...): the call is queued and
\* runs after the response has been sent.
add_task(queue, task) == Append(queue, task)

\* What a handler that ran to its return leaves.
Commit(op, o) ==
    /\ Store(o.mem)
    /\ \E oks \in SaveResults(Len(o.saves)) : disk' = AfterSaves(disk, o.saves, oks)
    /\ tasks' = IF o.send THEN add_task(tasks, o.task) ELSE tasks
    /\ checks' = IF o.checked
                 THEN [checks EXCEPT ![o.task.sessionId] = @ + 1] ELSE checks
    /\ last' = [op |-> op, sid |-> o.task.sessionId, generated |-> o.generated,
                response |-> o.response]

\* A request answered without a change of state.
Reject(op, sid, response) ==
    /\ last' = [op |-> op, sid |-> sid, generated |-> NoReply, response |-> response]
    /\ UNCHANGED <<sessions, disk, pending, tasks, checks, ever_sent>>

\* The POST handler with verify_api_key called after "3.1 Identify Session":
\* the session exists when the request is rejected.
PostReceiveLate(body, key_ok) ==
    /\ admitted < MaxRequests
    /\ admitted' = admitted + 1
    /\ IF key_ok
       THEN /\ pending' = pending (+) SetToBag({body})
            /\ UNCHANGED <<sessions, disk, tasks, checks, ever_sent, last>>
       ELSE /\ Store(get_or_create(sessions, SessionIdOf(body)))
            /\ last' = [op |-> "POST", sid |-> NoId, generated |-> NoReply,
                        response |-> Unauthorized]
            /\ UNCHANGED <<disk, pending, tasks, checks>>
    /\ UNCHANGED <<fs_faulty, call, eval, received, accepted>>

\* POST / and POST /analyze up to `await request.body()`: the API key is
\* verified, then the handler waits for the body.
PostReceive(body, key_ok) ==
    /\ admitted < MaxRequests
    /\ admitted' = admitted + 1
    /\ IF key_ok
       THEN /\ pending' = pending (+) SetToBag({body})
            /\ UNCHANGED <<sessions, disk, tasks, checks, ever_sent, last>>
       ELSE Reject("POST", NoId, Unauthorized)
    /\ UNCHANGED <<fs_faulty, call, eval, received, accepted>>

\* The rest of the handler, run in one piece once the body is there.
PostProcess(body, nvidia, gemini) ==
    /\ BagIn(body, pending)
    /\ pending' = pending (-) SetToBag({body})
    /\ Commit("POST", AnalyzeOutcome(sessions, body, nvidia, gemini))
    /\ UNCHANGED <<fs_faulty, call, eval, received, accepted, admitted>>

\* DELETE /session/{session_id}
EndSession(sid, key_ok) ==
    /\ admitted < MaxRequests
    /\ admitted' = admitted + 1
    /\ IF ~key_ok THEN Reject("DELETE", sid, Unauthorized)
       ELSE IF sid \notin DOMAIN sessions THEN Reject("DELETE", sid, NotFound)
       ELSE /\ Commit("DELETE", EndSessionOutcome(sessions, sid))
            /\ UNCHANGED pending
    /\ UNCHANGED <<fs_faulty, call, eval, received, accepted>>

\* GET /session/{session_id}
GetSession(sid, key_ok) ==
    /\ admitted < MaxRequests
    /\ admitted' = admitted + 1
    /\ IF ~key_ok THEN Reject("GET", sid, Unauthorized)
       ELSE IF sid \notin DOMAIN sessions THEN Reject("GET", sid, NotFound)
       ELSE Reject("GET", sid,
                [Response("session", 200, sid, sessions[sid].scam_detected, "",
                          sessions[sid].message_count,
                          sessions[sid].intelligence, <<>>)
                   EXCEPT !.status = "active",
                          !.callbackSent = sessions[sid].callback_sent])
    /\ UNCHANGED <<fs_faulty, call, eval, received, accepted>>

\* One pass of the retry loop of send_guvi_callback for task i: the first pass
\* builds the payload; a pass POSTs it, and the endpoint receives the POST
\* when it answers, and may have received it when the client saw a timeout
\* or an error.
CallbackAttempt(i, outcome, got) ==
    /\ i \in 1..Len(tasks)
    /\ tasks[i].state \in {"scheduled", "running"}
    /\ tasks[i].attempt < CallbackAttempts
    /\ StatusOf(outcome) # 0 => got
    /\ LET t == tasks[i]
           sid == t.sessionId
           intel == IF t.state = "scheduled" /\ sid \in DOMAIN sessions
                    THEN sessions[sid].intelligence
                    ELSE t.extractedIntelligence
           after == AfterAttempt(outcome)
           state == IF after = "return" THEN "succeeded"
                    ELSE IF after = "raise" THEN "raised"
                    ELSE IF t.attempt + 1 = CallbackAttempts THEN "failed"
                    ELSE "running"
           result == IF state = "succeeded" THEN ReturnSuccess
                     ELSE IF state = "failed" THEN ReturnFailure
                     ELSE NotReturned
       IN /\ tasks' = [tasks EXCEPT ![i] =
                          [t EXCEPT !.extractedIntelligence = intel,
                                    !.attempt = @ + 1, !.state = state,
                                    !.timeouts = Append(@, AttemptTimeout(t.attempt)),
                                    !.result = result]]
          /\ received' = [received EXCEPT ![sid] = @ + (IF got THEN 1 ELSE 0)]
          /\ accepted' = [accepted EXCEPT ![sid] =
                              @ + (IF StatusOf(outcome) \in {200, 201, 202} THEN 1 ELSE 0)]
    /\ last' = [op |-> "task", sid |-> tasks[i].sessionId, generated |-> NoReply,
                response |-> NoResponse]
    /\ UNCHANGED <<sessions, disk, fs_faulty, call, eval, pending, admitted, checks, ever_sent>>

Next ==
    \/ \E body \in Bodies, key_ok \in BOOLEAN : PostReceive(body, key_ok)
    \/ \E body \in Bodies, nvidia \in ProviderOutcomes, gemini \in ProviderOutcomes :
           PostProcess(body, nvidia, gemini)
    \/ \E sid \in SessionIds, key_ok \in BOOLEAN : EndSession(sid, key_ok)
    \/ \E sid \in SessionIds, key_ok \in BOOLEAN : GetSession(sid, key_ok)
    \/ \E i \in 1..Len(tasks), outcome \in AttemptOutcomes, got \in BOOLEAN :
           CallbackAttempt(i, outcome, got)

Spec == Init /\ [][Next]_vars

\* The event loop runs the background tasks: an attempt of a task that has
\* not ended ends, by an answer, an exception or its timeout.
SpecFair ==
    Spec /\ WF_vars(\E i \in 1..Len(tasks), outcome \in AttemptOutcomes, got \in BOOLEAN :
                       CallbackAttempt(i, outcome, got))

-----------------------------------------------------------------------------
(* The session manager driven method by method, next to the endpoints.     *)

\* A call that raised to its caller.
RaisedToCaller == Response("raised", 0, "", FALSE, "", 0, EmptyIntelligence, <<>>)

\* One call of a SessionManager method that leaves the map m and, when
\* `saved`, ends with save_to_disk.
Call(op, sid, m, saved) ==
    /\ admitted' = admitted + 1
    /\ Store(m)
    /\ \E ok \in (IF fs_faulty THEN BOOLEAN ELSE {TRUE}) :
          LET written == save_to_disk(disk, m, ok)
          IN /\ disk' = IF saved THEN written.file ELSE disk
             /\ last' = [op |-> op, sid |-> sid, generated |-> NoReply,
                         response |-> IF saved /\ written.raised
                                      THEN RaisedToCaller ELSE NoResponse]
    /\ UNCHANGED <<fs_faulty, call, eval, pending, tasks, received, accepted, checks>>

GetOrCreate(sid) ==
    /\ admitted < MaxRequests
    /\ Call("get_or_create", sid, get_or_create(sessions, sid),
            sid \notin DOMAIN sessions)

IncrementMessageCount(sid) ==
    /\ admitted < MaxRequests
    /\ Call("increment_message_count", sid, increment_message_count(sessions, sid),
            sid \in DOMAIN sessions)

SetScamDetected(sid, detected) ==
    /\ admitted < MaxRequests
    /\ Call("set_scam_detected", sid, set_scam_detected(sessions, sid, detected),
            sid \in DOMAIN sessions)

\* update_intelligence with the record extract_intelligence returns.
UpdateIntelligence(sid, text) ==
    /\ admitted < MaxRequests
    /\ sid \in DOMAIN sessions
    /\ Call("update_intelligence", sid,
            update_intelligence(sessions, sid,
                extract_intelligence(text, sessions[sid].intelligence)),
            TRUE)

\* update_activity: last_activity is not part of the state; the map is saved.
UpdateActivity(sid) ==
    /\ admitted < MaxRequests
    /\ Call("update_activity", sid, sessions, sid \in DOMAIN sessions)

\* update_notes with the notes detect_scam returns.
UpdateNotes(sid, text) ==
    /\ admitted < MaxRequests
    /\ Call("update_notes", sid, update_notes(sessions, sid, Detected[text].notes),
            sid \in DOMAIN sessions)

SetLastResponse(sid, response) ==
    /\ admitted < MaxRequests
    /\ Call("set_last_response", sid, set_last_response(sessions, sid, response),
            sid \in DOMAIN sessions)

MarkCallbackSent(sid) ==
    /\ admitted < MaxRequests
    /\ Call("mark_callback_sent", sid, mark_callback_sent(sessions, sid),
            sid \in DOMAIN sessions)

Delete(sid) ==
    /\ admitted < MaxRequests
    /\ Call("delete", sid, delete(sessions, sid), sid \in DOMAIN sessions)

NextManager ==
    \/ Next
    \/ \E sid \in SessionIds : GetOrCreate(sid)
    \/ \E sid \in SessionIds : IncrementMessageCount(sid)
    \/ \E sid \in SessionIds, detected \in BOOLEAN : SetScamDetected(sid, detected)
    \/ \E sid \in SessionIds, text \in Texts : UpdateIntelligence(sid, text)
    \/ \E sid \in SessionIds : UpdateActivity(sid)
    \/ \E sid \in SessionIds, text \in Texts : UpdateNotes(sid, text)
    \/ \E sid \in SessionIds, response \in {FallbackLine, ""} :
           SetLastResponse(sid, response)
    \/ \E sid \in SessionIds : MarkCallbackSent(sid)
    \/ \E sid \in SessionIds : Delete(sid)

SpecManager == Init /\ [][NextManager]_vars

\* The manager's mutators and the read of GET /session, on a file system
\* whose writes can fail.
NextFaulty ==
    \/ \E sid \in SessionIds : GetOrCreate(sid)
    \/ \E sid \in SessionIds : IncrementMessageCount(sid)
    \/ \E sid \in SessionIds, detected \in BOOLEAN : SetScamDetected(sid, detected)
    \/ \E sid \in SessionIds, text \in Texts : UpdateIntelligence(sid, text)
    \/ \E sid \in SessionIds : UpdateActivity(sid)
    \/ \E sid \in SessionIds, text \in Texts : UpdateNotes(sid, text)
    \/ \E sid \in SessionIds, response \in {FallbackLine, ""} :
           SetLastResponse(sid, response)
    \/ \E sid \in SessionIds : MarkCallbackSent(sid)
    \/ \E sid \in SessionIds : Delete(sid)
    \/ \E sid \in SessionIds, key_ok \in BOOLEAN : GetSession(sid, key_ok)

SpecFaulty == InitFaulty /\ [][NextFaulty]_vars

-----------------------------------------------------------------------------
(* The service restarted on the file it left.                              *)

\* The process ends and starts again: `session_manager = SessionManager()`
\* reads the file; the requests in progress and the callbacks that have not
\* ended are lost with the old process.
Restart ==
    /\ Store(load_from_disk(disk))
    /\ pending' = EmptyBag
    /\ tasks' = [i \in DOMAIN tasks |->
                   IF tasks[i].state \in {"scheduled", "running"}
                   THEN [tasks[i] EXCEPT !.state = "lost"] ELSE tasks[i]]
    /\ last' = [op |-> "restart", sid |-> NoId, generated |-> NoReply,
                response |-> NoResponse]
    /\ UNCHANGED <<disk, fs_faulty, call, eval, received, accepted, admitted, checks>>

\* Sessions with their id and their times: a quiet one created and last
\* active in the same whole second, an engaged one last active a fraction of
\* a second later.
TimedSessions ==
    {QuietSession @@ [session_id |-> "s1",
                      start_time |-> [second |-> 0, microsecond |-> 0],
                      last_activity |-> [second |-> 0, microsecond |-> 0]],
     EngagedSession(TRUE) @@ [session_id |-> "s1",
                              start_time |-> [second |-> 0, microsecond |-> 0],
                              last_activity |-> [second |-> 7, microsecond |-> 250000]]}

\* Session.from_dict(s.to_dict()) for one session s.
RoundTrip(s) ==
    /\ eval = NoEval
    /\ eval' = [fn |-> "round_trip", args |-> s, done |-> TRUE,
                result |-> LoadedSession(StoredDict(s))]
    /\ UNCHANGED <<sessions, disk, fs_faulty, pending, tasks, received, accepted,
                   admitted, checks, ever_sent, last, call>>

\* The endpoints that write, without the attempts of the callbacks (a task
\* is told from its scheduling on), and the restart.
NextRestart ==
    \/ \E body \in Bodies, key_ok \in BOOLEAN : PostReceive(body, key_ok)
    \/ \E body \in Bodies, nvidia \in ProviderOutcomes, gemini \in ProviderOutcomes :
           PostProcess(body, nvidia, gemini)
    \/ \E sid \in SessionIds, key_ok \in BOOLEAN : EndSession(sid, key_ok)
    \/ Restart
    \/ \E s \in TimedSessions : RoundTrip(s)

SpecRestart == Init /\ [][NextRestart]_vars

-----------------------------------------------------------------------------
(* agent.generate_response, step by step.                                  *)

\* What a step of generate_response leaves alone.
AgentFrame ==
    UNCHANGED <<sessions, disk, fs_faulty, pending, tasks, received, accepted,
                checks, ever_sent, last, eval>>

\* generate_response(current_message, conversation_history) is called and
\* builds the conversation context.
Invoke(history, nvidia, gemini) ==
    /\ admitted < MaxRequests
    /\ call.pc \in {"idle", "returned", "raised"}
    /\ admitted' = admitted + 1
    /\ call' = [NoCall EXCEPT
                   !.history = history,
                   !.nvidia = nvidia,
                   !.gemini = gemini,
                   !.pc = IF ContextRaises(history) THEN "raised" ELSE "nvidia"]
    /\ AgentFrame

\* get_nvidia_client() and, with a client, chat.completions.create(...): no
\* timeout is passed.
GetNvidia ==
    /\ call.pc = "nvidia"
    /\ call' = IF call.nvidia # "unavailable"
               THEN [call EXCEPT !.pc = "waiting_nvidia",
                                 !.called = Append(@, "nvidia")]
               ELSE [call EXCEPT !.pc = "gemini"]
    /\ AgentFrame /\ UNCHANGED admitted

\* The NVIDIA call ends: by an exception, or by a result.
NvidiaAnswers ==
    /\ call.pc = "waiting_nvidia"
    /\ call.nvidia # "silent"
    /\ call' = IF call.nvidia \in PassesTurn
               THEN [call EXCEPT !.pc = "gemini"]
               ELSE [call EXCEPT !.pc = "returned",
                                 !.result = Stripped(call.nvidia, "nvidia reply")]
    /\ AgentFrame /\ UNCHANGED admitted

\* get_gemini_client() and, with a client, models.generate_content(...): no
\* timeout is passed.
GetGemini ==
    /\ call.pc = "gemini"
    /\ call' = IF call.gemini # "unavailable"
               THEN [call EXCEPT !.pc = "waiting_gemini",
                                 !.called = Append(@, "gemini")]
               ELSE [call EXCEPT !.pc = "fallback"]
    /\ AgentFrame /\ UNCHANGED admitted

\* The Gemini call ends: by an exception, or by a result.
GeminiAnswers ==
    /\ call.pc = "waiting_gemini"
    /\ call.gemini # "silent"
    /\ call' = IF call.gemini \in PassesTurn
               THEN [call EXCEPT !.pc = "fallback"]
               ELSE [call EXCEPT !.pc = "returned",
                                 !.result = Stripped(call.gemini, "gemini reply")]
    /\ AgentFrame /\ UNCHANGED admitted

\* The last line of generate_response.
Fallback ==
    /\ call.pc = "fallback"
    /\ call' = [call EXCEPT !.pc = "returned", !.called = Append(@, "fallback"),
                            !.result = FallbackLine]
    /\ AgentFrame /\ UNCHANGED admitted

\* The steps of a call that has begun.
AgentStep ==
    GetNvidia \/ NvidiaAnswers \/ GetGemini \/ GeminiAnswers \/ Fallback

NextAgent ==
    \/ \E history \in AgentHistories, nvidia \in ProviderBehaviours,
          gemini \in ProviderBehaviours : Invoke(history, nvidia, gemini)
    \/ GetNvidia
    \/ NvidiaAnswers
    \/ GetGemini
    \/ GeminiAnswers
    \/ Fallback

SpecAgent == Init /\ [][NextAgent]_vars

\* A call that has begun runs on: the interpreter takes its steps, and a
\* provider that answers does so.
SpecAgentFair == SpecAgent /\ WF_vars(AgentStep)

-----------------------------------------------------------------------------
(* The pure functions, called on their own.                                *)

\* The service idle, and one call of a pure function about to run.
InitEval(evals) ==
    /\ disk = <<>>
    /\ sessions = load_from_disk(disk)
    /\ fs_faulty = FALSE
    /\ pending = EmptyBag
    /\ tasks = <<>>
    /\ received = [sid \in SessionIds |-> 0]
    /\ accepted = [sid \in SessionIds |-> 0]
    /\ admitted = 0
    /\ checks = [sid \in SessionIds |-> 0]
    /\ ever_sent = {}
    /\ call = NoCall
    /\ last = [op |-> "none", sid |-> NoId, generated |-> NoReply,
               response |-> NoResponse]
    /\ eval \in evals

\* What a call of a pure function leaves alone.
EvalFrame ==
    UNCHANGED <<sessions, disk, fs_faulty, pending, tasks, received, accepted,
                admitted, checks, ever_sent, last, call>>

\* The call returns.
Return(result) ==
    /\ ~eval.done
    /\ eval' = [eval EXCEPT !.done = TRUE, !.result = result]
    /\ EvalFrame

\* The message counts should_send_callback is called with reach from
\* -MaxCount to MaxCount.
MaxCount == 6

ShouldSendInputs ==
    [scam_detected : BOOLEAN, message_count : (0 - MaxCount)..MaxCount,
     callback_already_sent : BOOLEAN]

InitShouldSend ==
    InitEval({[fn |-> "should_send_callback", args |-> a, done |-> FALSE,
               result |-> FALSE] : a \in ShouldSendInputs})

ApplyShouldSend ==
    /\ eval.fn = "should_send_callback"
    /\ Return(should_send_callback(eval.args.scam_detected, eval.args.message_count,
                                   eval.args.callback_already_sent))

SpecShouldSend == InitShouldSend /\ [][ApplyShouldSend]_vars

-----------------------------------------------------------------------------
\* The categories found and the number of patterns matched, in every
\* combination.
ScoreInputs ==
    [urgency : BOOLEAN, threat : BOOLEAN, financial : BOOLEAN, authority : BOOLEAN,
     request : BOOLEAN, pattern_matches : 0..Len(PATTERNS)]

\* Texts with one category each, with the two of the example, with none, and
\* the message of the end-to-end scenario.
DetectTexts ==
    {<<"urgent">>, <<"blocked">>, <<"otp">>, <<"sbi">>, <<"share">>,
     <<"urgent", "otp">>, <<"share", "otp">>, TextHello, TextEmpty, TextScam,
     <<"police">>, <<"expire">>}

InitDetect ==
    InitEval({[fn |-> "score", args |-> a, done |-> FALSE, result |-> Verdict(0)]
                 : a \in ScoreInputs}
             \cup {[fn |-> "detect_scam", args |-> [text |-> t], done |-> FALSE,
                    result |-> Verdict(0)] : t \in DetectTexts})

\* The scoring lines of detect_scam, for given categories and pattern count.
ApplyScore ==
    /\ eval.fn = "score"
    /\ Return(Verdict(Score(eval.args.urgency, eval.args.threat, eval.args.financial,
                            eval.args.authority, eval.args.request,
                            eval.args.pattern_matches)))

\* detect_scam on a text.
ApplyDetect ==
    /\ eval.fn = "detect_scam"
    /\ Return([is_scam |-> detect_scam(eval.args.text).is_scam,
               confidence |-> detect_scam(eval.args.text).confidence])

SpecDetect == InitDetect /\ [][ApplyScore \/ ApplyDetect]_vars

\* The records extract_intelligence is handed: an empty one, one with a
\* payment address, one whose account list holds an entry twice, the one the
\* message of the scenario leaves, and one with entries no text of the model
\* holds.
ExistingRecords ==
    {EmptyIntelligence,
     [EmptyIntelligence EXCEPT !.upiIds = SetToBag({"scammer@ybl"})],
     [EmptyIntelligence EXCEPT
         !.bankAccounts = ListBag(<<"912345678901", "912345678901">>)],
     extract_intelligence(TextScam, EmptyIntelligence),
     [EmptyIntelligence EXCEPT !.upiIds = SetToBag({"old@paytm"}),
                               !.suspiciousKeywords = SetToBag({"support"})]}

\* result: the number of calls made, what the first call returned (a copy
\* taken when it returned), the object the last call returned, the object of
\* the argument record as it is now, and whether the two are one object.
InitExtract ==
    InitEval({[fn |-> "extract_intelligence",
               args |-> [text |-> t, existing |-> r], done |-> FALSE,
               result |-> [calls |-> 0, first |-> r, returned |-> r,
                           existing |-> r, same_object |-> FALSE]]
                 : t \in ExtractTexts, r \in ExistingRecords})

\* extract_intelligence(text, R)
ApplyExtract ==
    /\ eval.fn = "extract_intelligence"
    /\ LET c == ExtractCall(eval.args.text, eval.args.existing)
       IN Return([calls |-> 1, first |-> c.returned, returned |-> c.returned,
                  existing |-> c.existing, same_object |-> c.same_object])

\* extract_intelligence(text, E) on the record E the first call returned, R
\* itself when the first call returned its argument.
ApplyExtractAgain ==
    /\ eval.fn = "extract_intelligence"
    /\ eval.done
    /\ eval.result.calls = 1
    /\ LET c == ExtractCall(eval.args.text, eval.result.returned)
       IN eval' = [eval EXCEPT
                     !.result = [calls |-> 2, first |-> eval.result.first,
                                 returned |-> c.returned,
                                 existing |-> IF eval.result.same_object
                                              THEN c.existing
                                              ELSE eval.result.existing,
                                 same_object |-> /\ eval.result.same_object
                                                 /\ c.same_object]]
    /\ EvalFrame

SpecExtract == InitExtract /\ [][ApplyExtract \/ ApplyExtractAgain]_vars

\* The longest history is_repetitive is called on.
MaxHistory == 3

\* Histories of scammer turns with four words, with one of them replaced,
\* with one of them left out, or with no word, and of a user's turn; the
\* thresholds from 1 to the default.
RepetitiveInputs ==
    LET texts == {<<"share", "your", "otp", "now">>,
                  <<"share", "your", "otp", "number">>,
                  <<"share", "your", "otp">>, TextEmpty}
        entries == {DictEntry("scammer", t) : t \in texts}
                      \cup {DictEntry("user", TextHello)}
        histories == UNION {[1..k -> entries] : k \in 0..MaxHistory}
    IN [history : histories, threshold : 1..DefaultThreshold]

InitRepetitive ==
    InitEval({[fn |-> "is_repetitive", args |-> a, done |-> FALSE,
               result |-> FALSE] : a \in RepetitiveInputs})

ApplyRepetitive ==
    /\ eval.fn = "is_repetitive"
    /\ Return(is_repetitive(eval.args.history, eval.args.threshold))

SpecRepetitive == InitRepetitive /\ [][ApplyRepetitive]_vars

-----------------------------------------------------------------------------
(* main.py: rate_limit_middleware, request by request.                     *)

\* seconds; requests per window
RATE_LIMIT_WINDOW == 60
RATE_LIMIT_MAX_REQUESTS == 200

\* The timestamps of a list that the clean-up keeps:
\* [t for t in rate_limit_store[client_ip] if now - t < RATE_LIMIT_WINDOW]
Recent(stamps, now) ==
    [t \in {u \in DOMAIN stamps : now - u < RATE_LIMIT_WINDOW} |-> stamps[t]]

\* The middleware with `>` in place of `>=` in its check of the limit.
LimitExceededOnly(store, client_ip, now) ==
    LET kept == Recent(store[client_ip], now)
    IN IF BagCardinality(kept) > RATE_LIMIT_MAX_REQUESTS
       THEN [store |-> [store EXCEPT ![client_ip] = kept], status |-> 429,
             reached |-> FALSE]
       ELSE [store |-> [store EXCEPT ![client_ip] = kept (+) SetToBag({now})],
             status |-> 200, reached |-> TRUE]

\* rate_limit_middleware for a request of client_ip at time.time() = now, on
\* rate_limit_store (each list as the bag of its timestamps): the store it
\* leaves, 429 or the status of the handler (200 here), and whether
\* call_next was reached.
rate_limit_middleware(store, client_ip, now) ==
    LET kept == Recent(store[client_ip], now)
    IN IF BagCardinality(kept) >= RATE_LIMIT_MAX_REQUESTS
       THEN [store |-> [store EXCEPT ![client_ip] = kept], status |-> 429,
             reached |-> FALSE]
       ELSE [store |-> [store EXCEPT ![client_ip] = kept (+) SetToBag({now})],
             status |-> 200, reached |-> TRUE]

\* The requests that arrive in one behaviour.
MaxArrivals == 4

ClientIps == {"10.0.0.1", "10.0.0.2"}

\* The service at second 1 after requests that were all admitted: the first
\* client has sent none, or 198, or 199 in second 0, or 100 in second 0 and
\* 99 in second 1; the second client none, or 200 in second 0.  store is
\* rate_limit_store, admitted the timestamps of all requests admitted so far.
InitRateLimit ==
    InitEval({[fn |-> "rate_limit_middleware", done |-> FALSE, now |-> 1,
               arrivals |-> 0,
               store |-> ("10.0.0.1" :> a) @@ ("10.0.0.2" :> b),
               admitted |-> ("10.0.0.1" :> a) @@ ("10.0.0.2" :> b),
               args |-> [client_ip |-> "10.0.0.1", now |-> 1],
               result |-> [status |-> 0, reached |-> FALSE]]
                 : a \in {EmptyBag, (0 :> 198), (0 :> 199), (0 :> 100) @@ (1 :> 99)},
                   b \in {EmptyBag, (0 :> 200)}})

\* A request of client_ip arrives `later` seconds after the one before it.
Arrive(client_ip, later) ==
    /\ eval.fn = "rate_limit_middleware"
    /\ eval.arrivals < MaxArrivals
    /\ LET now == eval.now + later
           r == rate_limit_middleware(eval.store, client_ip, now)
       IN eval' = [eval EXCEPT
                     !.done = TRUE, !.now = now, !.arrivals = @ + 1,
                     !.store = r.store,
                     !.admitted = IF r.reached
                                  THEN [@ EXCEPT ![client_ip] = @ (+) SetToBag({now})]
                                  ELSE @,
                     !.args = [client_ip |-> client_ip, now |-> now],
                     !.result = [status |-> r.status, reached |-> r.reached]]
    /\ EvalFrame

SpecRateLimit ==
    InitRateLimit
      /\ [][\E client_ip \in ClientIps, later \in {0, 1, 59, 60} :
               Arrive(client_ip, later)]_vars

-----------------------------------------------------------------------------
(* Properties.                                                             *)

\* The step in which the handler of the POST with this body runs.
Processed(body) ==
    /\ BagIn(body, pending)
    /\ pending' = pending (-) SetToBag({body})

\* The fields of the session of `sid` before a request, as a new session's
\* when there is none yet.
Before(sid) == IF sid \in DOMAIN sessions THEN sessions[sid] ELSE NewSession

\* The history the handler of `body` works on ends with an object, or is empty.
WellFormed(body) ==
    LET synced == IF body.history # <<>> THEN body.history
                  ELSE Before(SessionIdOf(body)).conversation_history
    IN synced = <<>> \/ synced[Len(synced)].isdict

TasksFor(sid) == {i \in 1..Len(tasks) : tasks[i].sessionId = sid}

IsPrefix(s, t) == Len(s) <= Len(t) /\ SubSeq(t, 1, Len(s)) = s

IntelligenceFields ==
    {"bankAccounts", "upiIds", "phoneNumbers", "phishingLinks", "suspiciousKeywords"}

\* C1: for every session id, whatever the interleaving of POST and DELETE
\* requests, at most one send_guvi_callback task is ever added.
C1_ScheduledAtMostOnce ==
    \A sid \in SessionIds : Cardinality(TasksFor(sid)) <= 1

\* Two handlers have evaluated the callback condition of "s1"; one task.
C1_TwoChecksOneTask ==
    checks["s1"] >= 2 /\ Cardinality(TasksFor("s1")) = 1

C3_ScheduledOnDetection ==
    [][\A body \in Bodies :
          (/\ Processed(body)
           /\ WellFormed(body)
           /\ Detected[body.text].is_scam
           /\ ~Before(SessionIdOf(body)).scam_detected
           /\ ~Before(SessionIdOf(body)).callback_sent)
          => /\ Len(tasks') = Len(tasks) + 1
             /\ tasks'[Len(tasks')].sessionId = SessionIdOf(body)
             /\ sessions'[SessionIdOf(body)].callback_sent]_vars

\* C4 (as stated): when generate_response yields a reply r, the request ends
\* with scam_detected true, last_agent_response r, r the last history entry
\* (sender agent), and a result with the request's session id, scamDetected
\* true and agentResponse r.
C4_NormalCompletion ==
    [][\A body \in Bodies :
          (Processed(body) /\ last'.generated # NoReply)
          => LET session == sessions'[SessionIdOf(body)]
                 history == session.conversation_history
             IN /\ session.scam_detected
                /\ session.last_agent_response = last'.generated
                /\ history # <<>>
                /\ history[Len(history)] = DictEntry("agent", <<last'.generated>>)
                /\ last'.response.sessionId = SessionIdOf(body)
                /\ last'.response.scamDetected
                /\ last'.response.agentResponse = last'.generated]_vars

C6_OneWayWhileExists ==
    [][\A sid \in DOMAIN sessions :
          (sessions[sid].callback_sent /\ last'.op # "delete")
          => sid \in DOMAIN sessions' /\ sessions'[sid].callback_sent]_vars

\* Two operations have run, the last on "s1", which was marked before both and
\* still is.
C6_MarkedSurvives ==
    /\ admitted >= 2
    /\ last.sid = "s1" /\ last.op \notin {"none", "delete", "mark_callback_sent"}
    /\ "s1" \in ever_sent
    /\ "s1" \in DOMAIN sessions /\ sessions["s1"].callback_sent

\* C6 (as stated): a session id whose callback_sent has been true never has
\* callback_sent false again.
C6_OneWayPerId ==
    \A sid \in ever_sent : sid \in DOMAIN sessions => sessions[sid].callback_sent

\* C7 (as stated): each processed request raises the message_count of its
\* session by at least 1 and leaves every entity found in its message in the
\* session's intelligence record (so k requests raise it by at least k and
\* lose no entity).
C7_NoLostUpdate ==
    [][\A body \in Bodies :
          Processed(body)
          => LET sid == SessionIdOf(body)
             IN /\ sessions'[sid].message_count >= Before(sid).message_count + 1
                /\ \A f \in IntelligenceFields :
                      BagToSet(FoundIn[body.text][f])
                          \subseteq BagToSet(sessions'[sid].intelligence[f])]_vars

\* C8 (as stated): a processed message takes message_count to
\* max(old + 1, len(conversationHistory) + 1), and no step lowers it.
C8_CountFormula ==
    [][/\ \A body \in Bodies :
             (Processed(body) /\ WellFormed(body))
             => sessions'[SessionIdOf(body)].message_count
                    = Max(Before(SessionIdOf(body)).message_count + 1,
                          Len(body.history) + 1)
       /\ \A sid \in DOMAIN sessions \cap DOMAIN sessions' :
             sessions'[sid].message_count >= sessions[sid].message_count]_vars

\* C9: through every step, each of the five intelligence lists of every
\* session keeps the members it had, holds no member twice and never holds
\* the empty string.
C9_SetsGrow ==
    [][\A sid \in DOMAIN sessions', f \in IntelligenceFields :
          LET after == sessions'[sid].intelligence[f]
          IN /\ \A x \in BagToSet(after) : after[x] = 1 /\ x # ""
             /\ sid \in DOMAIN sessions
                => BagToSet(sessions[sid].intelligence[f]) \subseteq BagToSet(after)]_vars

\* The account number of the scam message is in the record of "user-ip" once,
\* after the message was extracted at least twice.
C9_ExtractedTwice ==
    /\ "user-ip" \in DOMAIN sessions
    /\ sessions["user-ip"].message_count >= 2
    /\ sessions["user-ip"].intelligence.bankAccounts = SetToBag({"912345678901"})
    /\ sessions["user-ip"].intelligence.suspiciousKeywords # EmptyBag

\* C10 (as stated): the history of a session before a request is a prefix of
\* its history after the request.
C10_AppendOnly ==
    [][\A body \in Bodies :
          Processed(body)
          => IsPrefix(Before(SessionIdOf(body)).conversation_history,
                      sessions'[SessionIdOf(body)].conversation_history)]_vars

\* C11 (as stated): every authenticated POST is answered with a result that
\* has all its fields and status "success"; a request in which a step raised
\* is answered with the fixed reply, zeroed metrics and empty intelligence.
C11_WellFormedResult ==
    [][\A body \in Bodies :
          Processed(body)
          => /\ last'.response.code = 200
             /\ last'.response.status = "success"
             /\ last'.response.reply = last'.response.agentResponse
             /\ last'.response.kind = "recovery"
                => /\ last'.response.reply = RecoveryReply
                   /\ last'.response.totalMessagesExchanged = 0
                   /\ last'.response.extractedIntelligence = EmptyIntelligence]_vars

\* C12 (as stated): a request that ends on the error path has still raised
\* the message_count of its session and merged what its message holds into
\* the session's intelligence.
C12_NoHalfUpdate ==
    [][\A body \in Bodies :
          (Processed(body) /\ last'.response.kind = "recovery")
          => LET sid == SessionIdOf(body)
             IN /\ sessions'[sid].message_count >= Before(sid).message_count + 1
                /\ \A f \in IntelligenceFields :
                      BagToSet(FoundIn[body.text][f])
                          \subseteq BagToSet(sessions'[sid].intelligence[f])]_vars

\* The session maps a mutator of the manager can leave in memory.
MutationResults(op, sid) ==
    CASE op = "get_or_create" -> {get_or_create(sessions, sid)}
      [] op = "update_activity" -> {sessions}
      [] op = "increment_message_count" -> {increment_message_count(sessions, sid)}
      [] op = "set_scam_detected" ->
             {set_scam_detected(sessions, sid, detected) : detected \in BOOLEAN}
      [] op = "update_intelligence" ->
             {IF sid \in DOMAIN sessions
              THEN update_intelligence(sessions, sid,
                       extract_intelligence(text, sessions[sid].intelligence))
              ELSE sessions : text \in Texts}
      [] op = "update_notes" ->
             {update_notes(sessions, sid, Detected[text].notes) : text \in Texts}
      [] op = "set_last_response" ->
             {set_last_response(sessions, sid, response) :
                  response \in {FallbackLine, ""}}
      [] op = "mark_callback_sent" -> {mark_callback_sent(sessions, sid)}
      [] op = "delete" -> {delete(sessions, sid)}
      [] OTHER -> {}

Mutators ==
    {"get_or_create", "update_activity", "increment_message_count",
     "set_scam_detected", "update_intelligence", "update_notes",
     "set_last_response", "mark_callback_sent", "delete"}

\* C13: on a file system whose writes can fail, every mutator of the manager
\* returns normally with its change applied in memory, whether or not its
\* save succeeded, and GET /session answers from memory, not from the file.
C13_SaveFailureHarmless ==
    [][/\ (admitted' = admitted + 1 /\ last'.op \in Mutators)
          => /\ last'.response # RaisedToCaller
             /\ sessions' \in MutationResults(last'.op, last'.sid)
       /\ (admitted' = admitted + 1 /\ last'.op = "GET"
                                    /\ last'.response.kind = "session")
          => /\ sessions' = sessions
             /\ last'.response.totalMessagesExchanged
                    = sessions[last'.sid].message_count
             /\ last'.response.scamDetected = sessions[last'.sid].scam_detected
             /\ last'.response.callbackSent = sessions[last'.sid].callback_sent
             /\ last'.response.extractedIntelligence
                    = sessions[last'.sid].intelligence]_vars

\* A read that answers a count the file does not hold: an earlier save failed.
C13_ReadAfterFailedSave ==
    /\ fs_faulty
    /\ last.op = "GET"
    /\ last.response.kind = "session"
    /\ last.sid \in DOMAIN disk
    /\ last.response.totalMessagesExchanged = disk[last.sid].message_count + 1

\* C14: get_or_create of an id that has a session changes no field of any
\* session and adds none; get_or_create of an unseen id adds exactly that
\* session, with count 0, both flags false, and empty intelligence, history,
\* notes and last reply.
C14_GetOrCreateIdempotent ==
    [][(admitted' = admitted + 1 /\ last'.op = "get_or_create")
       => LET sid == last'.sid
          IN IF sid \in DOMAIN sessions THEN sessions' = sessions
             ELSE /\ DOMAIN sessions' = DOMAIN sessions \cup {sid}
                  /\ \A x \in DOMAIN sessions : sessions'[x] = sessions[x]
                  /\ sessions'[sid].message_count = 0
                  /\ sessions'[sid].scam_detected = FALSE
                  /\ sessions'[sid].callback_sent = FALSE
                  /\ \A f \in IntelligenceFields :
                        sessions'[sid].intelligence[f] = EmptyBag
                  /\ sessions'[sid].conversation_history = <<>>
                  /\ sessions'[sid].agent_notes = <<>>
                  /\ sessions'[sid].last_agent_response = ""]_vars

\* get_or_create of a session that was counted up after it was loaded: the
\* call found it and left its count.
C14_CalledOnExisting ==
    /\ last.op = "get_or_create"
    /\ last.sid = "s1"
    /\ admitted = 2
    /\ "s1" \in DOMAIN sessions
    /\ sessions["s1"].message_count = 3

\* The provider behaviours that give generate_response no text.
Fails == {"unavailable", "raises", "none"}

\* The place of a candidate in the chain.
Rank(candidate) ==
    CASE candidate = "nvidia" -> 1 [] candidate = "gemini" -> 2 [] OTHER -> 3

\* C15 (as stated): for every history and every behaviour of the providers,
\* generate_response raises nothing to its caller and the string it returns
\* is not empty.
C15_NonEmptyNeverRaises ==
    /\ call.pc # "raised"
    /\ call.pc = "returned" => call.result # ""

\* C16 (as stated): a call of generate_response in which every provider is
\* unavailable or fails ends by returning the fixed fallback line.
C16_FallbackGuarantee ==
    (call.pc \in {"returned", "raised"} /\ call.nvidia \in Fails
                                        /\ call.gemini \in Fails)
    => /\ call.pc = "returned"
       /\ call.result = FallbackLine

C18_Terminates ==
    (call.pc = "nvidia") ~> (call.pc = "returned")

\* C19: a run of send_guvi_callback makes at most 3 attempts, the k-th of
\* them (k = 0, 1, 2) with timeout 5 + 2k; the first answer with status 200,
\* 201 or 202 ends it with (True, None), and no attempt follows.
C19_BoundedRetries ==
    [][\A i \in 1..Len(tasks) :
          LET t == tasks[i]
              u == tasks'[i]
              sid == t.sessionId
          IN /\ u.attempt <= 3
             /\ Len(u.timeouts) = u.attempt
             /\ \A k \in 1..Len(u.timeouts) : u.timeouts[k] = 5 + 2 * (k - 1)
             /\ accepted'[sid] > accepted[sid]
                => /\ u.state = "succeeded"
                   /\ u.result = [success |-> TRUE, error_message |-> "None"]
             /\ u.state = "succeeded" => accepted'[sid] = 1
             /\ t.state = "succeeded"
                => /\ u = t
                   /\ received'[sid] = received[sid]]_vars

\* A run that succeeded on its third attempt, after timeouts 5, 7 and 9.
C19_ThirdAttemptAccepted ==
    \E i \in 1..Len(tasks) :
        /\ tasks[i].state = "succeeded"
        /\ tasks[i].timeouts = <<5, 7, 9>>
        /\ tasks[i].result = ReturnSuccess

\* C20: a run of send_guvi_callback never ends by an exception; it has failed
\* exactly when three attempts were made and none met a success status, and
\* then it has returned (False, a message that is not empty); and every run
\* that was started ends.
C20_FailureReturned ==
    /\ [](\A i \in 1..Len(tasks) :
             LET t == tasks[i]
             IN /\ t.state # "raised"
                /\ t.state = "failed"
                   <=> (t.attempt = 3 /\ accepted[t.sessionId] = 0)
                /\ t.state = "failed"
                   => /\ t.result.success = FALSE
                      /\ t.result.error_message \notin {"", "None", "<not returned>"})
    /\ \A sid \in SessionIds :
          (\E i \in TasksFor(sid) : tasks[i].state \in {"scheduled", "running"})
          ~> (\A i \in TasksFor(sid) : tasks[i].state \in {"succeeded", "failed"})

\* A run that failed after a mix: of its three POSTs the endpoint received two.
C20_FailedAfterMix ==
    \E i \in 1..Len(tasks) :
        /\ tasks[i].state = "failed"
        /\ tasks[i].attempt = 3
        /\ tasks[i].result = ReturnFailure
        /\ received[tasks[i].sessionId] = 2

\* C21: the request that adds the callback task is answered in the step that
\* adds it, before any attempt of the task: the task is queued with no
\* attempt made and the endpoint has received nothing more; and no attempt,
\* whatever its outcome, changes the sessions or the file that requests are
\* answered from.
C21_OutOfBand ==
    [][/\ Len(tasks') > Len(tasks)
          => /\ Len(tasks') = Len(tasks) + 1
             /\ tasks'[Len(tasks')].attempt = 0
             /\ tasks'[Len(tasks')].state = "scheduled"
             /\ tasks'[Len(tasks')].result = NotReturned
             /\ received' = received
             /\ accepted' = accepted
             /\ last'.response.code = 200
             /\ last'.response.callbackSent = TRUE
       /\ (Len(tasks') = Len(tasks) /\ tasks' # tasks)
          => /\ sessions' = sessions
             /\ disk' = disk]_vars

\* DELETE /session has been answered and its task has made no attempt yet.
C21_AnsweredBeforeAttempt ==
    /\ last.op = "DELETE"
    /\ last.response.status = "terminated"
    /\ Len(tasks) = 1
    /\ tasks[1].attempt = 0
    /\ sessions[tasks[1].sessionId].callback_sent

\* C22: once the task of a session has failed, its three attempts used up,
\* no step adds another task for the session or runs the failed one again,
\* the session keeps callback_sent true, and a POST for the session is still
\* answered 200.
C22_FailureTerminal ==
    [][\A sid \in SessionIds :
          (\E i \in TasksFor(sid) : tasks[i].state = "failed")
          => /\ {i \in 1..Len(tasks') : tasks'[i].sessionId = sid} = TasksFor(sid)
             /\ \A i \in TasksFor(sid) : tasks'[i] = tasks[i]
             /\ received'[sid] = received[sid]
             /\ sid \in DOMAIN sessions'
             /\ sessions'[sid].callback_sent
             /\ \A body \in Bodies :
                   (Processed(body) /\ SessionIdOf(body) = sid)
                   => last'.response.code = 200]_vars

\* A POST for "s1" was answered after the task of "s1" had failed; there is
\* still one task.
C22_MessageAfterFailure ==
    /\ last.op = "POST"
    /\ last.sid = "s1"
    /\ last.response.code = 200
    /\ Len(tasks) = 1
    /\ tasks[1].sessionId = "s1"
    /\ tasks[1].state = "failed"
    /\ tasks[1].attempt = 3

\* C23: should_send_callback returns true exactly when scam_detected is
\* true, message_count is at least 1 and callback_already_sent is false, for
\* all booleans and all message counts, zero and negative ones included.
C23_SendRule ==
    (eval.fn = "should_send_callback" /\ eval.done)
    => (eval.result = TRUE
        <=> /\ eval.args.scam_detected = TRUE
            /\ eval.args.message_count >= 1
            /\ eval.args.callback_already_sent = FALSE)

\* The call for a detected, unreported session with one message returned true,
\* at the edge of the count.
C23_OneMessageSends ==
    /\ eval.fn = "should_send_callback"
    /\ eval.done
    /\ eval.args = [scam_detected |-> TRUE, message_count |-> 1,
                    callback_already_sent |-> FALSE]
    /\ eval.result = TRUE

\* The history a POST handler works on: the one of the request, or without
\* one the one of the session.
PriorTurns(body) ==
    IF body.history # <<>> THEN body.history
    ELSE Before(SessionIdOf(body)).conversation_history

\* C24 (as stated): when the half-weighted scores of the earlier scammer
\* turns add up to 0.30 or more, the POST that processes the next message
\* leaves the session with scam_detected true, also when that message alone
\* scores below 0.30.
C24_CumulativeDetection ==
    [][\A body \in Bodies :
          (/\ Processed(body)
           /\ ~analyze_conversation_history(PriorTurns(body)).raised
           /\ analyze_conversation_history(PriorTurns(body)).score >= 300
           /\ ~Detected[body.text].is_scam)
          => /\ SessionIdOf(body) \in DOMAIN sessions'
             /\ sessions'[SessionIdOf(body)].scam_detected]_vars

\* The exact score of the claim, in hundredths.
ClaimedScore(a) ==
      (IF a.urgency THEN 15 ELSE 0) + (IF a.threat THEN 25 ELSE 0)
    + (IF a.financial THEN 20 ELSE 0) + (IF a.authority THEN 15 ELSE 0)
    + (IF a.request THEN 10 ELSE 0)
    + (IF 15 * a.pattern_matches <= 30 THEN 15 * a.pattern_matches ELSE 30)

\* C25: for every combination of categories and every number p of matched
\* patterns the score is 0.15 urgency + 0.25 threat + 0.20 financial + 0.15
\* authority + 0.10 request + min(0.15 p, 0.30); is_scam is score >= 0.30;
\* the confidence is min(score, 1.0), between 0 and 1; the text "urgent otp"
\* is a scam at 0.35, and a text with one category and no pattern is not.
C25_ScoreFormula ==
    /\ (eval.fn = "score" /\ eval.done)
       => /\ eval.result.is_scam = (ClaimedScore(eval.args) >= 30)
          /\ eval.result.confidence
               = (IF ClaimedScore(eval.args) <= 100 THEN ClaimedScore(eval.args) ELSE 100)
          /\ eval.result.confidence \in 0..100
    /\ (eval.fn = "detect_scam" /\ eval.done)
       => /\ eval.args.text = <<"urgent", "otp">>
             => (eval.result.is_scam /\ eval.result.confidence = 35)
          /\ eval.args.text \in {<<"urgent">>, <<"blocked">>, <<"otp">>, <<"sbi">>, <<"share">>}
             => (~eval.result.is_scam /\ eval.result.confidence \in {10, 15, 20, 25})
          /\ eval.args.text \in {TextHello, TextEmpty}
             => (~eval.result.is_scam /\ eval.result.confidence = 0)

\* Every category and three patterns: the score 1.15 gives confidence 1.0.
C25_AllCategoriesCapped ==
    /\ eval.fn = "score"
    /\ eval.done
    /\ eval.args = [urgency |-> TRUE, threat |-> TRUE, financial |-> TRUE,
                    authority |-> TRUE, request |-> TRUE, pattern_matches |-> 3]
    /\ eval.result = [is_scam |-> TRUE, confidence |-> 100]

\* C26 (as stated): the answer to a first message that scores as scam and
\* holds an account number (the message of the scenario, to a session that
\* does not exist, with no history) has scamDetected true, the account
\* number "912345678901" among its bankAccounts, and notes that name the
\* urgency tactics and the threatening language.
C26_EndToEnd ==
    [][\A body \in Bodies :
          (/\ Processed(body)
           /\ body.text = TextScam
           /\ body.history = <<>>
           /\ SessionIdOf(body) \notin DOMAIN sessions)
          => /\ last'.response.scamDetected = TRUE
             /\ BagIn("912345678901", last'.response.extractedIntelligence.bankAccounts)
             /\ \E i \in 1..Len(last'.response.agentNotes) :
                   last'.response.agentNotes[i] = "urgency tactics"
             /\ \E i \in 1..Len(last'.response.agentNotes) :
                   last'.response.agentNotes[i] = "threatening language"]_vars

\* C27 (as stated): extract_intelligence leaves its record argument alone:
\* when extract_intelligence(text, R) has returned, R holds the members it
\* held before the call, the record returned is another object, and each of
\* its lists holds the members of R's and the entries found in the text.
C27_PureExtract ==
    (eval.fn = "extract_intelligence" /\ eval.done /\ eval.result.calls = 1)
    => /\ \A f \in IntelligenceFields :
             BagToSet(eval.result.existing[f]) = BagToSet(eval.args.existing[f])
       /\ ~eval.result.same_object
       /\ \A f \in IntelligenceFields :
             BagToSet(eval.result.returned[f])
                = BagToSet(eval.args.existing[f])
                     \cup BagToSet(FoundIn[eval.args.text][f])

\* C28: merge idempotence: extract_intelligence(t, extract_intelligence(t, R))
\* has the same five lists as extract_intelligence(t, R), entry for entry and
\* count for count (hence the same five sets): processing the same message
\* again grows nothing.
C28_MergeIdempotent ==
    (eval.fn = "extract_intelligence" /\ eval.result.calls = 2)
    => \A f \in IntelligenceFields : eval.result.returned[f] = eval.result.first[f]

\* The message of the scenario processed twice into a record that held its
\* account number twice: the second call found the number again.
C28_ScenarioTwice ==
    /\ eval.fn = "extract_intelligence"
    /\ eval.result.calls = 2
    /\ eval.args.text = TextScam
    /\ CopiesIn("912345678901", eval.args.existing.bankAccounts) = 2
    /\ BagIn("912345678901", FoundIn[eval.args.text].bankAccounts)
    /\ CopiesIn("912345678901", eval.result.returned.bankAccounts) = 1

\* An e-mail address and its prefixes that have the shape name@letters; the
\* empty set for a token that is no e-mail address.
AddressParts(tok) ==
    IF tok = "support@company.com"
    THEN {"support@company.com", "support@company", "support@compan",
          "support@compa", "support@comp", "support@com", "support@co"}
    ELSE {}

\* C29 (as stated): UPI filtering: after extract_intelligence(text, R), every
\* token name@handle of the text whose handle is a payment-provider suffix
\* is in upiIds, and no e-mail address of the text is in upiIds, neither
\* whole nor as a prefix (no record R of the model holds one beforehand).
C29_UpiFiltering ==
    (eval.fn = "extract_intelligence" /\ eval.done /\ eval.result.calls = 1)
    => \A i \in DOMAIN eval.args.text :
          LET tok == eval.args.text[i]
          IN /\ SuffixesOf(tok) \cap common_vpa_suffixes # {}
                   => BagIn(tok, eval.result.first.upiIds)
             /\ \A u \in AddressParts(tok) : ~BagIn(u, eval.result.first.upiIds)

\* Whether the Jaccard similarity |A \cap B| / |A \cup B| of the word sets of
\* two texts is at least 0.7 (it is not when neither text has a word).
JaccardSimilar(s1, s2) ==
    LET A == Range(s1)
        B == Range(s2)
    IN /\ A \cup B # {}
       /\ 10 * Cardinality(A \cap B) >= SimilarTenths * Cardinality(A \cup B)

\* C30 (as stated): is_repetitive(history, threshold) is true exactly when
\* the history holds at least `threshold` messages of the scammer and every
\* two consecutive ones among the last `threshold` of them have a Jaccard
\* similarity of their word sets of at least 0.7; it is false when there are
\* fewer than `threshold` messages of the scammer.
C30_Repetitive ==
    (eval.fn = "is_repetitive" /\ eval.done)
    => LET msgs == ScammerMessages(eval.args.history)
           n == Len(msgs)
           k == eval.args.threshold
       IN eval.result
             <=> /\ n >= k
                 /\ \A i \in (n - k + 1)..(n - 1) : JaccardSimilar(msgs[i], msgs[i + 1])

\* The five keyword lists of the scorer, in the order of their weights.
Categories ==
    <<URGENCY_KEYWORDS, THREAT_KEYWORDS, FINANCIAL_KEYWORDS, AUTHORITY_KEYWORDS,
      REQUEST_KEYWORDS>>

\* C31 (as stated): the five keyword categories of the scorer are pairwise
\* disjoint, so a text in which exactly one keyword of the vocabulary
\* matches gets the weight of one category and is not classified as scam.
C31_DisjointCategories ==
    (eval.fn = "detect_scam" /\ eval.done)
    => /\ \A c \in DOMAIN Categories : \A d \in DOMAIN Categories :
             c # d => Categories[c] \cap Categories[d] = {}
       /\ LET found == KeywordsFound(UNION Range(Categories), eval.args.text)
          IN Cardinality(found) = 1
                => /\ Cardinality({c \in DOMAIN Categories :
                                      found \cap Categories[c] # {}}) = 1
                   /\ ~eval.result.is_scam

\* The history a POST finds: the conversationHistory of its body, or the
\* session's own when the body carries none.
PriorHistory(body) ==
    IF body.history # <<>> THEN body.history
    ELSE Before(SessionIdOf(body)).conversation_history

\* The context of the generation a POST ran: the handler passes the session's
\* history and the message's text, and appends nothing to that history
\* between the call and the end of the step (the `await` raises).
GenerationContext(body) ==
    build_conversation_context(sessions'[SessionIdOf(body)].conversation_history,
                               body.text)

\* C32 (as stated): the context of a generation on the analyze path is the
\* last (at most 6) entries of the history, in order, then the current
\* message as the final turn of the scammer; the current message is rendered
\* once in it (when none of those entries of the history is that message).
C32_ContextOnce ==
    [][\A body \in Bodies :
          (Processed(body) /\ last'.generated # NoReply)
          => LET context == GenerationContext(body)
                 window == LastEntries(PriorHistory(body), ContextWindow)
             IN /\ context = build_conversation_context(window, body.text)
                              \* the turns of window, then the message
                /\ (\A i \in DOMAIN window : window[i].text # body.text)
                      => Cardinality({i \in DOMAIN context :
                                         context[i].text = body.text}) = 1]_vars

\* C33 (as stated): the frame of the non-scam path: a message that scores
\* below 0.30, to a session whose scam_detected is false, calls no generation
\* provider, appends no agent entry to the history, leaves
\* last_agent_response, scam_detected and callback_sent as they were,
\* schedules no callback, and is answered with scamDetected false.
C33_NonScamFrame ==
    [][\A body \in Bodies :
          (/\ Processed(body)
           /\ ~Detected[body.text].is_scam
           /\ ~Before(SessionIdOf(body)).scam_detected)
          => LET sid == SessionIdOf(body)
                 prior == PriorHistory(body)
             IN /\ last'.generated = NoReply
                /\ sessions'[sid].conversation_history
                      \in {prior, Append(prior, DictEntry("scammer", body.text))}
                /\ sessions'[sid].last_agent_response = Before(sid).last_agent_response
                /\ sessions'[sid].scam_detected = Before(sid).scam_detected
                /\ sessions'[sid].callback_sent = Before(sid).callback_sent
                /\ tasks' = tasks
                /\ last'.response.scamDetected = FALSE]_vars

\* C34: in every state reached through the endpoints, a session whose
\* callback_sent is true has scam_detected true, and every callback that was
\* scheduled carries scamDetected true and totalMessagesExchanged >= 1.
C34_CallbackImpliesScam ==
    /\ \A sid \in DOMAIN sessions :
          sessions[sid].callback_sent => sessions[sid].scam_detected
    /\ \A i \in DOMAIN tasks :
          tasks[i].scamDetected /\ tasks[i].totalMessagesExchanged >= 1

\* A DELETE has scheduled the callback of the engaged session "s1", and a
\* session that was never engaged exists next to it.
C34_ScheduledNextToQuiet ==
    /\ Len(tasks) = 1
    /\ tasks[1].sessionId = "s1"
    /\ tasks[1].scamDetected
    /\ sessions["s1"].callback_sent
    /\ DefaultSessionId \in DOMAIN sessions
    /\ ~sessions[DefaultSessionId].scam_detected
    /\ ~sessions[DefaultSessionId].callback_sent

\* What a rejected request leaves alone: the session map, the file, the
\* requests in progress and the callbacks scheduled.
Untouched == UNCHANGED <<sessions, disk, pending, tasks, checks, ever_sent>>

\* C35: a POST to / or /analyze, or a GET or DELETE on /session/{id}, whose
\* X-API-Key is missing or wrong is answered 401, and the whole session map
\* is unchanged by it: no session is created or modified, nothing is written
\* and no callback is scheduled.
C35_RejectedBeforeState ==
    [][/\ \A body \in Bodies :
             PostReceive(body, FALSE) => (last'.response.code = 401 /\ Untouched)
       /\ \A sid \in SessionIds :
             (EndSession(sid, FALSE) \/ GetSession(sid, FALSE))
             => (last'.response.code = 401 /\ Untouched)]_vars

\* A DELETE without the key was rejected for an engaged session whose
\* callback was never sent: with the key it would have scheduled one.
C35_RejectedDelete ==
    /\ last.op = "DELETE"
    /\ last.sid = "s1"
    /\ last.response = Unauthorized
    /\ "s1" \in DOMAIN sessions
    /\ sessions["s1"].scam_detected
    /\ ~sessions["s1"].callback_sent
    /\ tasks = <<>>

\* C36: session isolation: processing a message for session A, in any
\* interleaving with other requests, leaves every field of every other
\* session B as it was; a callback that a request for A schedules carries
\* A's id, count, intelligence and notes, and an attempt of it re-reads the
\* intelligence of A alone.
C36_SessionIsolation ==
    [][/\ \A body \in Bodies :
             Processed(body)
             => \A B \in DOMAIN sessions \ {SessionIdOf(body)} :
                   B \in DOMAIN sessions' /\ sessions'[B] = sessions[B]
       /\ Len(tasks') > Len(tasks)
             => LET t == tasks'[Len(tasks')]
                    A == last'.sid
                IN /\ t.sessionId = A
                   /\ t.totalMessagesExchanged = sessions'[A].message_count
                   /\ t.extractedIntelligence = sessions'[A].intelligence
                   /\ t.agentNotes = sessions'[A].agent_notes
       /\ \A i \in DOMAIN tasks :
             tasks'[i].sessionId = tasks[i].sessionId
             /\ tasks'[i].extractedIntelligence
                   \in {tasks[i].extractedIntelligence}
                       \cup {sessions[sid].intelligence :
                                sid \in DOMAIN sessions \cap {tasks[i].sessionId}}
      ]_vars

\* A message with entities was processed for the session of the client's
\* address while the engaged session "s1", whose callback is scheduled, held
\* other data.
C36_MessageNextToEngaged ==
    /\ last.op = "POST"
    /\ last.sid = DefaultSessionId
    /\ BagIn("912345678901", sessions[DefaultSessionId].intelligence.bankAccounts)
    /\ "s1" \in DOMAIN sessions
    /\ sessions["s1"] = EngagedSession(TRUE)
    /\ Len(tasks) = 1
    /\ tasks[1].sessionId = "s1"

\* Session.from_dict(s.to_dict()) is s: on all ten fields for the session a
\* round trip was made for, on the fields of the state for every session of
\* the map; and no session has had a second callback scheduled.
RoundTripHolds ==
    /\ eval.fn = "round_trip" => eval.result = eval.args
    /\ \A sid \in DOMAIN sessions : from_dict(to_dict(sessions[sid])) = sessions[sid]
    /\ \A sid \in SessionIds : Cardinality(TasksFor(sid)) <= 1

C38_EndSessionAnswer ==
    [][\A sid \in SessionIds :
          EndSession(sid, TRUE)
          => /\ last'.response.callbackSent => sid \in ever_sent'
             /\ (sid \in DOMAIN sessions /\ ~sessions[sid].scam_detected)
                   => (tasks' = tasks /\ ~sessions'[sid].callback_sent)
             /\ sid \notin DOMAIN sessions
                   => (last'.response.code = 404 /\ Untouched)]_vars

\* How many of the timestamps lie in the 60 seconds from `from` on.
InWindow(stamps, from) ==
    BagCardinality([t \in {u \in DOMAIN stamps :
                              from <= u /\ u < from + RATE_LIMIT_WINDOW} |-> stamps[t]])

\* C39: rate limiting: for each client IP at most 200 requests are admitted
\* within any 60 seconds (it is enough to look at the windows that start at
\* an admitted request); a request that arrives when 200 admitted requests
\* of its client lie within the last 60 seconds is answered 429, reaches no
\* handler and is not recorded.
C39_RateLimit ==
    [][/\ \A ip \in ClientIps : \A from \in DOMAIN eval'.admitted[ip] :
             InWindow(eval'.admitted[ip], from) <= RATE_LIMIT_MAX_REQUESTS
       /\ LET ip == eval'.args.client_ip
              now == eval'.args.now
          IN BagCardinality(Recent(eval.admitted[ip], now)) >= RATE_LIMIT_MAX_REQUESTS
                => /\ eval'.result = [status |-> 429, reached |-> FALSE]
                   /\ eval'.admitted = eval.admitted
                   /\ eval'.store[ip] = Recent(eval.store[ip], now)]_vars

\* The 199th and the 200th request of a client within a minute were
\* admitted and the next one was answered 429.
C39_RejectedAtLimit ==
    /\ eval.fn = "rate_limit_middleware"
    /\ eval.arrivals = 3
    /\ eval.args.client_ip = "10.0.0.1"
    /\ eval.result.status = 429
    /\ BagCardinality(eval.admitted["10.0.0.1"]) = RATE_LIMIT_MAX_REQUESTS
    /\ eval.admitted["10.0.0.2"] = EmptyBag

=============================================================================
